---- MODULE Spec2Model ----
(***************************************************************************)
(* Verification development for salesforce-hub: the client-side rate       *)
(* limiter and verification flows of the retryButton component             *)
(* (src/unnamed/part_001) and of faydaVerification.                        *)
(*                                                                         *)
(* Time is Date.now() in epoch milliseconds.  localStorage is shared by    *)
(* every instance of a component that shows the same record (two browser   *)
(* tabs); every other field is per instance.  recordId is always set:      *)
(* both components are placed on a Lead record page.  Handlers are         *)
(* entered by events; the markup that wires them is not part of the        *)
(* sources, so a handler may be entered whenever its component is          *)
(* connected.                                                              *)
(*                                                                         *)
(* The document viewers, signatureCapture and telegramConversation are     *)
(* followed each on a page of its own.                                     *)
(***************************************************************************)
EXTENDS Integers, Sequences, FiniteSets, TLC

VARIABLES
    mounted,        \* the component the record page shows
    now,            \* Date.now()
    attemptStore,   \* recordId -> localStorage[STORAGE_KEY_PREFIX + recordId]
    flowStore,      \* recordId -> localStorage[FLOW_EXECUTION_KEY_PREFIX + recordId]
    lead,           \* the Lead record on the server: status and FCN
    rb,             \* the retryButton instances, one per tab
    otpCalls,       \* outstanding fetchOTP call-outs of each instance
    fv,             \* the faydaVerification instance
    faydaStore,     \* localStorage['faydaAttempts_' + recordId]
    urlCalls,       \* outstanding generateVerificationUrl call-outs
    popup,          \* the browser window named 'faydaVerification'
    polls,          \* the running intervals of startPopupMonitoring: their counters
    muleCalls,      \* outstanding getUserInfoFromMuleSoft call-outs
    kycCalls,       \* outstanding fetchKYCDetails call-outs of each instance
    writes,         \* outstanding updateRecord call-outs
    procCalls,      \* outstanding processVerificationResult call-outs
    viewer,         \* the document viewer instance and its outstanding loads
    sig,            \* the signatureCapture instance and its canvas
    chat,           \* the telegramConversation instance and its sendMessage calls
    lastOp          \* what the last step did, and on which instance (observer)

retryVars == <<attemptStore, flowStore, rb, otpCalls>>

faydaVars == <<fv, faydaStore, urlCalls, popup, polls, muleCalls>>

exchangeVars == <<kycCalls, writes, procCalls>>

\* The components that take no part in the verification flows
widgetVars == <<viewer, sig, chat>>

vars == <<mounted, now, lead, retryVars, faydaVars, exchangeVars, widgetVars, lastOp>>

----------------------------------------------------------------------------
(* Bounds of the model *)

\* Call-outs one instance may have outstanding at once.
MaxCalls == 2
\* Verification sessions of faydaVerification in flight at once: call-outs
\* and running polls.
MaxSessions == 1

\* Verification sessions of the faydaVerification that may be under way at
\* once when overlapping sessions are followed.
MaxPopups == 2

\* Documents a load may return, and loads that may be outstanding at once.
MaxDocs == 3
MaxLoads == 2

\* Strokes begun on the signature canvas, and snapshots its history may hold.
MaxStrokes == 3
MaxHistory == 4

\* The component instances (browser tabs) of retryButton.
Tabs == {"tab1", "tab2"}

\* The Lead records whose pages are shown.  The tabs show the same record,
\* except on the page "twoRecords", where the second tab shows another one.
Records == {"lead-A", "lead-B"}

RetryPages == {"retryButton", "twoRecords"}

\* A storage key that leaves the record id out
recordIdShared(i) == "lead-A"

\* this.recordId of instance i
recordId(i) ==
    IF mounted = "twoRecords" /\ i = "tab2" THEN "lead-B" ELSE "lead-A"

\* The instants Date.now() is observed at.
TimePoints == {0, 4999, 5000, 100000, 599999, 600000, 800000}

----------------------------------------------------------------------------
(* Program constants *)

MAX_ATTEMPTS == 3
TIME_WINDOW_MINUTES == 10
FLOW_RECENT_MS == 5000

timeWindowMs == TIME_WINDOW_MINUTES * 60 * 1000

VerificationSuccessful == "Verification Successful"
VerificationFailed == "Verification Failed"

\* localStorage.getItem of a key that was never set (null), and of a key
\* holding a text
NoItem == [present |-> FALSE, text |-> <<>>]

Item(text) == [present |-> TRUE, text |-> text]

----------------------------------------------------------------------------
(* Conversions *)

\* Number.prototype.toString(): the decimal digits of n >= 0
RECURSIVE NumToString(_)
NumToString(n) ==
    IF n < 10 THEN <<n>> ELSE NumToString(n \div 10) \o <<n % 10>>

\* parseInt(s, 10) of a string of decimal digits
RECURSIVE ParseInt(_)
ParseInt(s) ==
    IF Len(s) = 0 THEN 0
    ELSE 10 * ParseInt(SubSeq(s, 1, Len(s) - 1)) + s[Len(s)]

\* JSON.stringify of an array of integers, as a stored item: its elements
\* in decimal
JSONstringify(arr) == Item([k \in 1..Len(arr) |-> NumToString(arr[k])])

\* An item whose text is not JSON: -1 stands for a character that is no
\* digit
Unreadable == Item(<< <<-1>> >>)

\* JSON.parse of the item returns (it throws a SyntaxError otherwise)
Parses(stored) ==
    \A k \in DOMAIN stored.text :
        \A d \in DOMAIN stored.text[k] : stored.text[k][d] \in 0..9

\* JSON.parse of such an item
JSONparse(stored) == [k \in 1..Len(stored.text) |-> ParseInt(stored.text[k])]

\* Math.min(...arr) of a non-empty array
RECURSIVE MathMin(_)
MathMin(arr) ==
    IF Len(arr) = 1 THEN arr[1]
    ELSE LET m == MathMin(Tail(arr)) IN IF arr[1] < m THEN arr[1] ELSE m

\* n.toString() without the padding
PadStartNone(n) == ToString(n)

\* n.toString().padStart(2, '0')
PadStart2(n) == IF n < 10 THEN "0" \o ToString(n) ELSE ToString(n)

\* updateTimeUntilReset: the text shown for timeLeft milliseconds
FormatTimeLeft(timeLeft) ==
    IF timeLeft <= 0 THEN ""
    ELSE LET minutes == timeLeft \div (1000 * 60)
             seconds == (timeLeft % (1000 * 60)) \div 1000
         IN PadStart2(minutes) \o ":" \o PadStart2(seconds)

updateTimeUntilReset(c, timeLeft) ==
    [c EXCEPT !.timeUntilReset = FormatTimeLeft(timeLeft)]

----------------------------------------------------------------------------
(* retryButton: rate limiting *)

\* intervalId tells whether the field holds an id; timers counts the
\* intervals that setInterval created and clearInterval has not cleared

\* A stopCountdownTimer that forgets the id without clearing the interval
stopCountdownTimerUncleared(c) == [c EXCEPT !.intervalId = FALSE]

stopCountdownTimer(c) ==
    IF c.intervalId
    THEN [c EXCEPT !.timers = @ - 1, !.intervalId = FALSE]
    ELSE c

startCountdownTimer(c) ==
    LET c1 == IF c.intervalId THEN [c EXCEPT !.timers = @ - 1] ELSE c
    IN [c1 EXCEPT !.timers = @ + 1, !.intervalId = TRUE]

\* A filter that also keeps an attempt made exactly timeWindowMs ago
RecentAttemptsClosed(attempts, t) ==
    LET InWindow(timestamp) == t - timestamp <= timeWindowMs
    IN SelectSeq(attempts, InWindow)

\* A filter that keeps every attempt
RecentAttemptsUnfiltered(attempts, t) == attempts

\* attempts.filter(timestamp => now - timestamp < timeWindowMs)
RecentAttempts(attempts, t) ==
    LET InWindow(timestamp) == t - timestamp < timeWindowMs
    IN SelectSeq(attempts, InWindow)

\* this.MAX_ATTEMPTS - recentAttempts.length
RemainingFor(recentAttempts) == MAX_ATTEMPTS - Len(recentAttempts)

\* A reset time counted from the newest attempt
ResetTimeFromNewest(attempts) ==
    (CHOOSE x \in {attempts[k] : k \in DOMAIN attempts} :
        \A k \in DOMAIN attempts : attempts[k] <= x) + timeWindowMs

\* oldestAttempt + timeWindowMs
ResetTime(attempts) == MathMin(attempts) + timeWindowMs

\* checkRateLimit: the instance and the stored text it leaves
checkRateLimit(c, stored, t) ==
    IF c.status = VerificationSuccessful
    THEN [c |-> stopCountdownTimer(
                    [c EXCEPT !.isRateLimited = TRUE, !.timeUntilReset = ""]),
          stored |-> stored]
    ELSE IF stored = NoItem
    THEN [c |-> [c EXCEPT !.remainingAttempts = MAX_ATTEMPTS,
                          !.isRateLimited = FALSE,
                          !.timeUntilReset = ""],
          stored |-> stored]
    ELSE IF ~Parses(stored)
    THEN \* JSON.parse throws before any field is assigned
         [c |-> c, stored |-> stored]
    ELSE LET attempts == JSONparse(stored)
             recentAttempts == RecentAttempts(attempts, t)
             kept == IF Len(recentAttempts) # Len(attempts)
                     THEN JSONstringify(recentAttempts) ELSE stored
             c1 == [c EXCEPT !.remainingAttempts = RemainingFor(recentAttempts)]
         IN IF Len(recentAttempts) >= MAX_ATTEMPTS
            THEN [c |-> updateTimeUntilReset(
                            [c1 EXCEPT !.isRateLimited = TRUE],
                            ResetTime(recentAttempts) - t),
                  stored |-> kept]
            ELSE [c |-> [c1 EXCEPT !.isRateLimited = FALSE,
                                   !.timeUntilReset = ""],
                  stored |-> kept]

\* checkRateLimit ends by the SyntaxError of JSON.parse, which nothing
\* catches
checkRateLimitThrows(c, stored) ==
    /\ c.status # VerificationSuccessful
    /\ stored # NoItem
    /\ ~Parses(stored)

\* An updateButtonState that does not block a verified record
updateButtonStateUnblocked(c, stored, t) ==
    IF c.status = VerificationSuccessful
    THEN [c |-> stopCountdownTimer(
                    [c EXCEPT !.isRateLimited = FALSE, !.timeUntilReset = ""]),
          stored |-> stored]
    ELSE checkRateLimit(c, stored, t)

\* updateButtonState
updateButtonState(c, stored, t) ==
    IF c.status = VerificationSuccessful
    THEN [c |-> stopCountdownTimer(
                    [c EXCEPT !.isRateLimited = TRUE, !.timeUntilReset = ""]),
          stored |-> stored]
    ELSE checkRateLimit(c, stored, t)

\* updateLiveCountdown
updateLiveCountdown(c, stored, t) ==
    IF ~c.isRateLimited \/ c.status = VerificationSuccessful
    THEN [c |-> c, stored |-> stored]
    ELSE IF stored = NoItem \/ ~Parses(stored)
    THEN [c |-> c, stored |-> stored]
    ELSE LET attempts == JSONparse(stored)
         IN IF Len(attempts) > 0
            THEN LET timeLeft == ResetTime(attempts) - t
                 IN IF timeLeft > 0
                    THEN [c |-> updateTimeUntilReset(c, timeLeft),
                          stored |-> stored]
                    ELSE checkRateLimit(c, stored, t)
            ELSE [c |-> c, stored |-> stored]

\* A recording that puts the new attempt in front of the stored ones
PushAttemptInFront(stored, t) ==
    LET attempts == IF stored = NoItem THEN <<>> ELSE JSONparse(stored)
    IN JSONstringify(<<t>> \o attempts)

\* A recording that replaces the stored attempts by the new one
PushAttemptOverwrite(stored, t) == JSONstringify(<<t>>)

\* The stored text after attempts.push(now) and setItem
PushAttempt(stored, t) ==
    LET attempts == IF stored = NoItem THEN <<>> ELSE JSONparse(stored)
    IN JSONstringify(Append(attempts, t))

\* updateAttemptTracking
updateAttemptTracking(c, stored, t) ==
    checkRateLimit(c, PushAttempt(stored, t), t)

\* A guard that still holds exactly FLOW_RECENT_MS after the start
hasFlowExecutedRecentlyInclusive(flow, t) ==
    IF flow # NoItem
    THEN t - ParseInt(flow.text) <= FLOW_RECENT_MS
    ELSE FALSE

\* hasFlowExecutedRecently
hasFlowExecutedRecently(flow, t) ==
    IF flow # NoItem
    THEN t - ParseInt(flow.text) < FLOW_RECENT_MS
    ELSE FALSE

\* markFlowAsExecuted
markFlowAsExecuted(t) == Item(NumToString(t))

----------------------------------------------------------------------------
(* retryButton: the flow *)

\* handleError
handleError(c, message) ==
    [c EXCEPT !.errorMessage = message, !.currentStep = "error",
              !.flowStarted = FALSE, !.otpProcessing = FALSE,
              !.showOtpModal = FALSE]

\* A showErrorMessage that leaves the instance in progress
showErrorMessageInProgress(c, message) ==
    [c EXCEPT !.errorMessage = message, !.currentStep = "error",
              !.flowStarted = TRUE, !.showOtpModal = FALSE]

\* showErrorMessage
showErrorMessage(c, message) ==
    [c EXCEPT !.errorMessage = message, !.currentStep = "error",
              !.flowStarted = FALSE, !.showOtpModal = FALSE]

\* A guard that does not read the rate-limited flag
RetryBlockedIgnoringLimit(c, flow, t) ==
    \/ c.status = VerificationSuccessful
    \/ c.flowStarted
    \/ hasFlowExecutedRecently(flow, t)

\* The guard of handleRetry: the start is blocked
RetryBlocked(c, flow, t) ==
    \/ c.isRateLimited
    \/ c.status = VerificationSuccessful
    \/ c.flowStarted
    \/ hasFlowExecutedRecently(flow, t)

InitialInstance ==
    [connected |-> FALSE, intervalId |-> FALSE, timers |-> 0,
     isRateLimited |-> FALSE, remainingAttempts |-> 3, timeUntilReset |-> "",
     status |-> "", fcnId |-> "", individualId |-> "",
     currentStep |-> "initial", showOtpModal |-> FALSE, otpValue |-> "",
     otpProcessing |-> FALSE, transactionId |-> "", errorMessage |-> "",
     kycDetails |-> "none", showKycModal |-> FALSE,
     flowStarted |-> FALSE]

\* What the observer notes of a step: the kind of step and the instance.
\* "eval" is a callback that ran checkRateLimit, "evalTick" a countdown
\* tick that found the reset time passed and ran it
Op(op, tab) == [op |-> op, tab |-> tab]

\* The fields of a faydaVerification instance as declared.  timeRemaining
\* is declared as the number 0 and assigned texts afterwards; it is kept
\* as a text throughout.
InitialFayda ==
    [connected |-> FALSE, intervalId |-> FALSE, timers |-> 0,
     showVerifyButton |-> FALSE, showTryAgainButton |-> FALSE,
     showVerifiedStatus |-> FALSE, isLoading |-> FALSE,
     showConfirmationModal |-> FALSE, showDetailsModal |-> FALSE,
     showErrorModal |-> FALSE, statusMessage |-> "", currentStatus |-> "",
     errorMessage |-> "", verificationAttempts |-> 0,
     rateLimitExceeded |-> FALSE, timeRemaining |-> "0",
     userInfo |-> "null", apiResponse |-> "null", verificationDetails |-> "none",
     popupWindow |-> "null", currentState |-> "null"]

\* A document viewer after construction, no load requested yet
InitialViewer ==
    [c |-> [connected |-> FALSE, documents |-> <<>>, isLoading |-> FALSE,
            error |-> "undefined", isViewerOpen |-> FALSE, currentIndex |-> 0,
            isFullscreen |-> FALSE, listening |-> FALSE],
     loads |-> 0]

\* A signatureCapture after construction, not rendered yet.  `ink` is what
\* the canvas shows: the strokes drawn on it; `strokes` counts the strokes
\* begun.
InitialSignature ==
    [canvas |-> "null", ink |-> {}, strokes |-> 0, isDrawing |-> FALSE,
     hasSignature |-> FALSE, history |-> <<>>, historyIndex |-> -1,
     canUndo |-> FALSE, canRedo |-> FALSE]

\* A telegramConversation after construction, nothing delivered by the
\* wire yet; `sends` are the sendMessage call-outs that are outstanding
InitialChat ==
    [c |-> [conversationData |-> [thread |-> "undefined", hasActiveSession |-> FALSE],
            messageText |-> "", attachmentUrl |-> "", isSending |-> FALSE,
            isLoading |-> TRUE],
     sends |-> <<>>]

\* The state after construction of the component the page shows
InitOf(component) ==
    /\ mounted = component
    /\ now = 0
    /\ attemptStore = [r \in Records |-> NoItem]
    /\ flowStore = [r \in Records |-> NoItem]
    /\ lead \in [status : {""},
                  fcn : IF component = "retryButton" THEN {"", "FCN-1"} ELSE {"FCN-1"}]
    /\ rb = [i \in Tabs |-> InitialInstance]
    /\ otpCalls = [i \in Tabs |-> 0]
    /\ fv = InitialFayda
    /\ faydaStore = NoItem
    /\ urlCalls = 0
    /\ popup = "none"
    /\ polls = <<>>
    /\ muleCalls = <<>>
    /\ kycCalls = [i \in Tabs |-> 0]
    /\ writes = <<>>
    /\ procCalls = <<>>
    /\ viewer = [InitialViewer EXCEPT
                    !.c.isFullscreen = (component = "viewDocumentPreview")]
    /\ sig = InitialSignature
    /\ chat = InitialChat
    /\ lastOp = Op("init", "")

Init == InitOf("retryButton") \/ InitOf("faydaVerification")

\* Date.now() moves on to one of the instants of T
AdvanceClock(T) ==
    /\ \E t \in T : t > now /\ now' = t
    /\ lastOp' = Op("none", "")
    /\ UNCHANGED <<mounted, widgetVars, exchangeVars, attemptStore, flowStore, lead, rb, otpCalls, faydaVars>>

\* Another user or process sets the status of the Lead record to one of S
LeadUpdate(S) ==
    /\ \E s \in S : s # lead.status /\ lead' = [lead EXCEPT !.status = s]
    /\ lastOp' = Op("none", "")
    /\ UNCHANGED <<mounted, widgetVars, exchangeVars, now, attemptStore, flowStore, rb, otpCalls, faydaVars>>

\* connectedCallback
connectedCallback(i) ==
    /\ mounted \in RetryPages
    /\ ~rb[i].connected
    /\ LET r == checkRateLimit([rb[i] EXCEPT !.connected = TRUE], attemptStore[recordId(i)], now)
           threw == checkRateLimitThrows(rb[i], attemptStore[recordId(i)])
       IN /\ rb' = [rb EXCEPT ![i] = IF threw THEN r.c ELSE startCountdownTimer(r.c)]
          /\ attemptStore' = [attemptStore EXCEPT ![recordId(i)] = r.stored]
          /\ lastOp' = Op(IF threw THEN "threw" ELSE "eval", i)
    /\ UNCHANGED <<mounted, widgetVars, exchangeVars, now, flowStore, lead, otpCalls, faydaVars>>

\* disconnectedCallback
disconnectedCallback(i) ==
    /\ rb[i].connected
    /\ rb' = [rb EXCEPT ![i] = stopCountdownTimer([rb[i] EXCEPT !.connected = FALSE])]
    /\ lastOp' = Op("none", "")
    /\ UNCHANGED <<mounted, widgetVars, exchangeVars, now, attemptStore, flowStore, lead, otpCalls, faydaVars>>

\* wired: the record's data is delivered
wired(i) ==
    /\ rb[i].connected
    /\ LET c1 == [rb[i] EXCEPT !.status = lead.status, !.fcnId = lead.fcn,
                               !.individualId = lead.fcn]
           r == updateButtonState(c1, attemptStore[recordId(i)], now)
       IN /\ rb' = [rb EXCEPT ![i] = r.c]
          /\ attemptStore' = [attemptStore EXCEPT ![recordId(i)] = r.stored]
          /\ lastOp' = Op(IF checkRateLimitThrows(c1, attemptStore[recordId(i)])
                          THEN "threw" ELSE "eval", i)
    /\ UNCHANGED <<mounted, widgetVars, exchangeVars, now, flowStore, lead, otpCalls, faydaVars>>

\* The countdown reached zero: the tick goes on to checkRateLimit
TickEvaluates(c, stored, t) ==
    /\ c.status # VerificationSuccessful /\ c.isRateLimited
    /\ stored # NoItem /\ Parses(stored)
    /\ Len(JSONparse(stored)) > 0
    /\ ResetTime(JSONparse(stored)) - t <= 0

\* The setInterval callback of startCountdownTimer
countdownTick(i) ==
    /\ rb[i].timers > 0
    /\ LET r == IF rb[i].status # VerificationSuccessful /\ rb[i].isRateLimited
                THEN updateLiveCountdown(rb[i], attemptStore[recordId(i)], now)
                ELSE [c |-> rb[i], stored |-> attemptStore[recordId(i)]]
       IN /\ rb' = [rb EXCEPT ![i] = r.c]
          /\ attemptStore' = [attemptStore EXCEPT ![recordId(i)] = r.stored]
    /\ lastOp' = IF TickEvaluates(rb[i], attemptStore[recordId(i)], now)
                 THEN Op("evalTick", i) ELSE Op("none", "")
    /\ UNCHANGED <<mounted, widgetVars, exchangeVars, now, flowStore, lead, otpCalls, faydaVars>>

\* handleRetry, up to the await of fetchOTP in sendOTP
handleRetry(i) ==
    /\ rb[i].connected
    /\ IF RetryBlocked(rb[i], flowStore[recordId(i)], now)
       THEN /\ lastOp' = Op("retryBlocked", i)
            /\ UNCHANGED <<attemptStore, flowStore, rb, otpCalls>>
       ELSE IF rb[i].fcnId = ""
       THEN /\ rb' = [rb EXCEPT ![i] = showErrorMessage(rb[i],
                         "Please Check The Selected Lead has National FCN Id Or Not")]
            /\ lastOp' = Op("retryNoFcn", i)
            /\ UNCHANGED <<attemptStore, flowStore, otpCalls>>
       ELSE IF attemptStore[recordId(i)] # NoItem /\ ~Parses(attemptStore[recordId(i)])
       THEN \* JSON.parse in updateAttemptTracking throws; nothing catches it
            /\ rb' = [rb EXCEPT ![i] = [@ EXCEPT !.flowStarted = TRUE,
                                                 !.currentStep = "processing"]]
            /\ flowStore' = [flowStore EXCEPT ![recordId(i)] = markFlowAsExecuted(now)]
            /\ lastOp' = Op("threw", i)
            /\ UNCHANGED <<attemptStore, otpCalls>>
       ELSE /\ otpCalls[i] < MaxCalls
            /\ LET c1 == [rb[i] EXCEPT !.flowStarted = TRUE,
                                       !.currentStep = "processing"]
                   r == updateAttemptTracking(c1, attemptStore[recordId(i)], now)
               IN /\ flowStore' = [flowStore EXCEPT ![recordId(i)] = markFlowAsExecuted(now)]
                  /\ attemptStore' = [attemptStore EXCEPT ![recordId(i)] = r.stored]
                  /\ IF r.c.individualId = ""
                     THEN /\ rb' = [rb EXCEPT ![i] =
                                 handleError(r.c, "Individual ID (FCN) is required")]
                          /\ UNCHANGED otpCalls
                     ELSE /\ rb' = [rb EXCEPT ![i] = r.c]
                          /\ otpCalls' = [otpCalls EXCEPT ![i] = @ + 1]
            /\ lastOp' = Op("retryAccepted", i)
    /\ UNCHANGED <<mounted, widgetVars, exchangeVars, now, lead, faydaVars>>

\* The transaction ids the OTP service answers with
TransactionIds == {"TXN-1"}

\* sendOTP after the await: fetchOTP answered with status 200 or 201
sendOTPSuccess(i) ==
    /\ otpCalls[i] > 0
    /\ otpCalls' = [otpCalls EXCEPT ![i] = @ - 1]
    /\ \E id \in TransactionIds :
          rb' = [rb EXCEPT ![i] = [@ EXCEPT !.transactionId = id,
                                            !.otpValue = "",
                                            !.showOtpModal = TRUE,
                                            !.flowStarted = FALSE]]
    /\ lastOp' = Op("initOk", i)
    /\ UNCHANGED <<mounted, widgetVars, exchangeVars, now, attemptStore, flowStore, lead, faydaVars>>

\* sendOTP after the await: another status code, or an empty result
sendOTPFailure(i) ==
    /\ otpCalls[i] > 0
    /\ otpCalls' = [otpCalls EXCEPT ![i] = @ - 1]
    /\ \E message \in {"Oops! The FAYDA Service is currently offline. Please try again in 2 minutes",
                       "No response received from OTP service."} :
          rb' = [rb EXCEPT ![i] = handleError(@, message)]
    /\ lastOp' = Op("initFailed", i)
    /\ UNCHANGED <<mounted, widgetVars, exchangeVars, now, attemptStore, flowStore, lead, faydaVars>>

\* sendOTP after the await: fetchOTP rejected; nothing catches it
sendOTPRejected(i) ==
    /\ otpCalls[i] > 0
    /\ otpCalls' = [otpCalls EXCEPT ![i] = @ - 1]
    /\ lastOp' = Op("initFailed", i)
    /\ UNCHANGED <<mounted, widgetVars, exchangeVars, now, attemptStore, flowStore, lead, rb, faydaVars>>

\* handleCancelOtp (handleCancel and handleCloseDetails assign the same)
handleCancelOtp(i) ==
    /\ rb[i].connected
    /\ rb' = [rb EXCEPT ![i] = [@ EXCEPT !.showOtpModal = FALSE, !.otpValue = "",
                                         !.flowStarted = FALSE,
                                         !.otpProcessing = FALSE,
                                         !.currentStep = "initial"]]
    /\ lastOp' = Op("none", "")
    /\ UNCHANGED <<mounted, widgetVars, exchangeVars, now, attemptStore, flowStore, lead, otpCalls, faydaVars>>

\* handleErrorRetry
handleErrorRetry(i) ==
    /\ rb[i].connected
    /\ rb' = [rb EXCEPT ![i] = [@ EXCEPT !.currentStep = "initial",
                                         !.errorMessage = "",
                                         !.flowStarted = FALSE,
                                         !.otpProcessing = FALSE,
                                         !.showOtpModal = FALSE]]
    /\ lastOp' = Op("none", "")
    /\ UNCHANGED <<mounted, widgetVars, exchangeVars, now, attemptStore, flowStore, lead, otpCalls, faydaVars>>

\* The handlers and continuations of the retryButton instances of `tabs`
RetryHandlers(tabs) ==
    \E i \in tabs :
        \/ connectedCallback(i)
        \/ disconnectedCallback(i)
        \/ wired(i)
        \/ countdownTick(i)
        \/ handleRetry(i)
        \/ sendOTPSuccess(i)
        \/ sendOTPFailure(i)
        \/ sendOTPRejected(i)
        \/ handleCancelOtp(i)
        \/ handleErrorRetry(i)

----------------------------------------------------------------------------
(* faydaVerification: rate limiting *)

Verified == "Verified"

faydaStopCountdownTimer(f) ==
    IF f.intervalId
    THEN [f EXCEPT !.timers = @ - 1, !.intervalId = FALSE]
    ELSE f

faydaStartCountdownTimer(f) ==
    LET f1 == IF f.intervalId THEN [f EXCEPT !.timers = @ - 1] ELSE f
    IN [f1 EXCEPT !.timers = @ + 1, !.intervalId = TRUE]

faydaUpdateTimeUntilReset(f, timeLeft) ==
    [f EXCEPT !.timeRemaining = FormatTimeLeft(timeLeft)]

\* checkRateLimit of faydaVerification
faydaCheckRateLimit(f, stored, t) ==
    IF f.currentStatus = Verified
    THEN [c |-> faydaStopCountdownTimer(
                    [f EXCEPT !.rateLimitExceeded = TRUE, !.timeRemaining = ""]),
          stored |-> stored]
    ELSE IF stored = NoItem
    THEN [c |-> [f EXCEPT !.verificationAttempts = MAX_ATTEMPTS,
                          !.rateLimitExceeded = FALSE,
                          !.timeRemaining = ""],
          stored |-> stored]
    ELSE LET attempts == JSONparse(stored)
             recentAttempts == RecentAttempts(attempts, t)
             kept == IF Len(recentAttempts) # Len(attempts)
                     THEN JSONstringify(recentAttempts) ELSE stored
             f1 == [f EXCEPT !.verificationAttempts = RemainingFor(recentAttempts)]
         IN IF Len(recentAttempts) >= MAX_ATTEMPTS
            THEN [c |-> faydaUpdateTimeUntilReset(
                            [f1 EXCEPT !.rateLimitExceeded = TRUE],
                            ResetTime(recentAttempts) - t),
                  stored |-> kept]
            ELSE [c |-> [f1 EXCEPT !.rateLimitExceeded = FALSE,
                                   !.timeRemaining = ""],
                  stored |-> kept]

\* updateLiveCountdown of faydaVerification
faydaUpdateLiveCountdown(f, stored, t) ==
    IF ~f.rateLimitExceeded \/ f.currentStatus = Verified
    THEN [c |-> f, stored |-> stored]
    ELSE IF stored = NoItem
    THEN [c |-> f, stored |-> stored]
    ELSE LET attempts == JSONparse(stored)
         IN IF Len(attempts) > 0
            THEN LET timeLeft == ResetTime(attempts) - t
                 IN IF timeLeft > 0
                    THEN [c |-> faydaUpdateTimeUntilReset(f, timeLeft),
                          stored |-> stored]
                    ELSE faydaCheckRateLimit(f, stored, t)
            ELSE [c |-> f, stored |-> stored]

\* updateAttemptTracking of faydaVerification
faydaUpdateAttemptTracking(f, stored, t) ==
    faydaCheckRateLimit(f, PushAttempt(stored, t), t)

\* updateButtonState(status) of faydaVerification
faydaUpdateButtonState(f, status, stored, t) ==
    LET f0 == [f EXCEPT !.showVerifyButton = FALSE, !.showTryAgainButton = FALSE,
                        !.showVerifiedStatus = FALSE, !.statusMessage = ""]
        f1 == IF status \in {Verified, VerificationSuccessful, "Code Captured"}
              THEN [f0 EXCEPT !.showVerifiedStatus = TRUE,
                              !.statusMessage = "Client verified successfully"]
              ELSE IF status \in {"Pending", "Processing"}
              THEN [f0 EXCEPT !.showTryAgainButton = TRUE,
                              !.statusMessage = "Verification in progress. You can try again."]
              ELSE IF status \in {VerificationFailed, "Cancelled"}
              THEN [f0 EXCEPT !.showTryAgainButton = TRUE,
                              !.statusMessage = "Verification failed. Please try again."]
              ELSE [f0 EXCEPT !.showVerifyButton = TRUE,
                              !.statusMessage = "Verify client using Fayda"]
    IN faydaCheckRateLimit(f1, stored, t)

\* showError
showError(f, message) ==
    [f EXCEPT !.errorMessage = message, !.showErrorModal = TRUE]

----------------------------------------------------------------------------
(* faydaVerification: the flow *)

\* The pages that show a faydaVerification: "faydaVerification" is followed
\* through its limiter and initiation, "faydaFlow" through its whole flow,
\* "faydaPopups" through overlapping sessions
FaydaPages == {"faydaVerification", "faydaFlow", "faydaPopups"}

\* Sessions that may be under way at once on the page
SessionCap == IF mounted = "faydaPopups" THEN MaxPopups ELSE MaxSessions

\* The state tokens a verification URL or the popup's address may carry
StateTokens == {"state-1", "state-2"}

\* maxAttempts of startPopupMonitoring
maxAttempts == 120

\* A callback that leaves `attempts` as it was
CountAfterTickNotCounted(attempts, eventful) == attempts

\* The counter of a poll after one more callback.  A callback that sees
\* nothing changes only this counter, which no other code reads: the model
\* runs such callbacks up to the last but one in one step.  Past
\* maxAttempts the values are not told apart.
CountAfterTick(attempts, eventful) ==
    IF attempts >= maxAttempts THEN attempts
    ELSE IF eventful \/ attempts >= maxAttempts - 1 THEN attempts + 1
    ELSE maxAttempts - 1

\* What a poll callback reads at this.popupWindow.location.href
Observations ==
    {[kind |-> "securityError", state |-> ""],
     [kind |-> "error", state |-> ""],
     [kind |-> "other", state |-> ""]}
    \cup {[kind |-> "code", state |-> s] : s \in StateTokens}

\* A clearInterval that leaves the interval running
RemoveAtKept(seq, k) == seq

RemoveAt(seq, k) == SubSeq(seq, 1, k - 1) \o SubSeq(seq, k + 1, Len(seq))

\* connectedCallback of faydaVerification
faydaConnectedCallback ==
    /\ mounted \in FaydaPages
    /\ ~fv.connected
    /\ LET r == faydaCheckRateLimit([fv EXCEPT !.connected = TRUE], faydaStore, now)
       IN /\ fv' = faydaStartCountdownTimer(r.c)
          /\ faydaStore' = r.stored
    /\ lastOp' = Op("eval", "fv")
    /\ UNCHANGED <<mounted, widgetVars, exchangeVars, now, lead, retryVars, urlCalls, popup, polls, muleCalls>>

\* disconnectedCallback of faydaVerification (the later of its two definitions)
faydaDisconnectedCallback ==
    /\ fv.connected
    /\ popup' = IF fv.popupWindow # "null" /\ popup = "open" THEN "closed" ELSE popup
    /\ fv' = faydaStopCountdownTimer([fv EXCEPT !.connected = FALSE])
    /\ lastOp' = Op("none", "")
    /\ UNCHANGED <<mounted, widgetVars, exchangeVars, now, lead, retryVars, faydaStore, urlCalls, polls, muleCalls>>

\* wiredRecord: the record's data is delivered
wiredRecord ==
    /\ fv.connected
    /\ LET r == faydaUpdateButtonState([fv EXCEPT !.currentStatus = lead.status],
                                       lead.status, faydaStore, now)
       IN /\ fv' = r.c
          /\ faydaStore' = r.stored
    /\ lastOp' = Op("eval", "fv")
    /\ UNCHANGED <<mounted, widgetVars, exchangeVars, now, lead, retryVars, urlCalls, popup, polls, muleCalls>>

\* The setInterval callback of startCountdownTimer; this.status is never
\* assigned in faydaVerification, so its test of the status always passes
faydaCountdownTick ==
    /\ fv.timers > 0
    /\ LET r == IF fv.rateLimitExceeded
                THEN faydaUpdateLiveCountdown(fv, faydaStore, now)
                ELSE [c |-> fv, stored |-> faydaStore]
       IN /\ fv' = r.c
          /\ faydaStore' = r.stored
    /\ lastOp' = IF /\ fv.rateLimitExceeded /\ fv.currentStatus # Verified
                    /\ faydaStore # NoItem
                    /\ Len(JSONparse(faydaStore)) > 0
                    /\ ResetTime(JSONparse(faydaStore)) - now <= 0
                 THEN Op("evalTick", "fv") ELSE Op("none", "")
    /\ UNCHANGED <<mounted, widgetVars, exchangeVars, now, lead, retryVars, urlCalls, popup, polls, muleCalls>>

\* handleVerificationClick, up to the await of generateVerificationUrl
handleVerificationClick ==
    /\ fv.connected
    /\ IF fv.rateLimitExceeded
       THEN /\ lastOp' = Op("clickBlocked", "fv")
            /\ UNCHANGED <<fv, faydaStore, urlCalls>>
       ELSE /\ urlCalls + Len(polls) + Len(muleCalls) < SessionCap
            /\ LET r == faydaUpdateAttemptTracking(
                            [fv EXCEPT !.isLoading = TRUE, !.errorMessage = ""],
                            faydaStore, now)
               IN /\ fv' = r.c
                  /\ faydaStore' = r.stored
            /\ urlCalls' = urlCalls + 1
            /\ lastOp' = Op("clickAccepted", "fv")
    /\ UNCHANGED <<mounted, widgetVars, exchangeVars, now, lead, retryVars, popup, polls, muleCalls>>

\* handleVerificationClick after the await: the URL arrived and the popup opened
verificationUrlOpened ==
    /\ urlCalls > 0
    /\ urlCalls' = urlCalls - 1
    /\ \E s \in StateTokens :
          fv' = [fv EXCEPT !.currentState = s, !.popupWindow = "window"]
    /\ popup' = "open"
    /\ polls' = Append(polls, 0)
    /\ lastOp' = Op("initOk", "fv")
    /\ UNCHANGED <<mounted, widgetVars, exchangeVars, now, lead, retryVars, faydaStore, muleCalls>>

\* handleVerificationClick after the await: the URL arrived and window.open
\* returned null
verificationPopupBlocked ==
    /\ urlCalls > 0
    /\ urlCalls' = urlCalls - 1
    /\ \E s \in StateTokens :
          fv' = [showError([fv EXCEPT !.currentState = s, !.popupWindow = "null"],
                     "Failed to start verification: Popup blocked! Please allow popups for this site.")
                 EXCEPT !.isLoading = FALSE]
    /\ lastOp' = Op("initFailed", "fv")
    /\ UNCHANGED <<mounted, widgetVars, exchangeVars, now, lead, retryVars, faydaStore, popup, polls, muleCalls>>

\* handleVerificationClick after the await: generateVerificationUrl rejected
verificationUrlRejected ==
    /\ urlCalls > 0
    /\ urlCalls' = urlCalls - 1
    /\ fv' = [showError(fv, "Failed to start verification: " \o "Server error")
              EXCEPT !.isLoading = FALSE]
    /\ lastOp' = Op("initFailed", "fv")
    /\ UNCHANGED <<mounted, widgetVars, exchangeVars, now, lead, retryVars, faydaStore, popup, polls, muleCalls>>

\* The user closes the popup window
popupClosedByUser ==
    /\ popup = "open"
    /\ popup' = "closed"
    /\ lastOp' = Op("none", "")
    /\ UNCHANGED <<mounted, widgetVars, exchangeVars, now, lead, retryVars, fv, faydaStore, urlCalls, polls, muleCalls>>

\* One callback of the k-th running interval of startPopupMonitoring
pollTick(k) ==
    /\ k \in 1..Len(polls)
    /\ IF fv.popupWindow = "null"
       THEN \* reading .closed of null throws a TypeError, which the catch ignores
            /\ polls' = [polls EXCEPT ![k] = CountAfterTick(@, FALSE)]
            /\ UNCHANGED <<fv, popup, muleCalls>>
       ELSE IF popup = "closed"
       THEN /\ polls' = RemoveAt(polls, k)
            /\ fv' = [fv EXCEPT !.isLoading = FALSE]
            /\ UNCHANGED <<popup, muleCalls>>
       ELSE \E obs \in Observations :
            LET attempts == CountAfterTick(polls[k],
                                obs.kind \in {"code", "error"})
            IN IF obs.kind = "code"
               THEN /\ polls' = RemoveAt(polls, k)
                    /\ popup' = "closed"
                    /\ muleCalls' = Append(muleCalls,
                          [code |-> "code-1", state |-> obs.state,
                           currentState |-> fv.currentState])
                    /\ UNCHANGED fv
               ELSE IF obs.kind = "error"
               THEN /\ polls' = RemoveAt(polls, k)
                    /\ popup' = "closed"
                    /\ fv' = [showError(fv, "Verification failed: " \o "access_denied")
                              EXCEPT !.isLoading = FALSE]
                    /\ UNCHANGED muleCalls
               ELSE IF attempts >= maxAttempts
               THEN /\ polls' = RemoveAt(polls, k)
                    /\ popup' = "closed"
                    /\ fv' = [showError(fv,
                                 IF obs.kind = "securityError"
                                 THEN "Cannot access verification page. Please ensure popups are allowed."
                                 ELSE "Verification timed out. Please try again.")
                              EXCEPT !.isLoading = FALSE]
                    /\ UNCHANGED muleCalls
               ELSE /\ polls' = [polls EXCEPT ![k] = attempts]
                    /\ UNCHANGED <<fv, popup, muleCalls>>
    /\ lastOp' = Op("poll", "fv")
    /\ UNCHANGED <<mounted, widgetVars, exchangeVars, now, lead, retryVars, faydaStore, urlCalls>>

\* result.data of a successful getUserInfoFromMuleSoft result: the
\* identity, or nothing
ResultData == {"identity", "null"}

\* callMuleSoftAPI after the await: the result reports success
muleSoftSuccess(k) ==
    /\ k \in 1..Len(muleCalls)
    /\ muleCalls' = RemoveAt(muleCalls, k)
    /\ \E data \in ResultData :
          fv' = [fv EXCEPT !.apiResponse = "result",
                           !.userInfo = IF data # "null" THEN data ELSE "result",
                           !.showConfirmationModal = TRUE, !.isLoading = FALSE]
    /\ lastOp' = Op("exchangeOk", "fv")
    /\ UNCHANGED <<mounted, widgetVars, exchangeVars, now, lead, retryVars, faydaStore, urlCalls, popup, polls>>

\* callMuleSoftAPI after the await: the result reports no success
muleSoftFailure(k) ==
    /\ k \in 1..Len(muleCalls)
    /\ muleCalls' = RemoveAt(muleCalls, k)
    /\ \E message \in {"Invalid code", "Failed to get user information"} :
          fv' = [showError([fv EXCEPT !.apiResponse = "result"], message)
                 EXCEPT !.isLoading = FALSE]
    /\ lastOp' = Op("exchangeFailed", "fv")
    /\ UNCHANGED <<mounted, widgetVars, exchangeVars, now, lead, retryVars, faydaStore, urlCalls, popup, polls>>

\* callMuleSoftAPI after the await: getUserInfoFromMuleSoft rejected
muleSoftRejected(k) ==
    /\ k \in 1..Len(muleCalls)
    /\ muleCalls' = RemoveAt(muleCalls, k)
    /\ fv' = [showError(fv, "Failed to call MuleSoft API: " \o "Server error")
              EXCEPT !.isLoading = FALSE]
    /\ lastOp' = Op("exchangeFailed", "fv")
    /\ UNCHANGED <<mounted, widgetVars, exchangeVars, now, lead, retryVars, faydaStore, urlCalls, popup, polls>>

\* closeConfirmationModal
closeConfirmationModal ==
    /\ fv.connected /\ fv.showConfirmationModal
    /\ fv' = [fv EXCEPT !.showConfirmationModal = FALSE, !.userInfo = "null",
                        !.apiResponse = "null"]
    /\ lastOp' = Op("none", "")
    /\ UNCHANGED <<mounted, widgetVars, exchangeVars, now, lead, retryVars, faydaStore, urlCalls, popup, polls, muleCalls>>

\* closeErrorModal
closeErrorModal ==
    /\ fv.connected /\ fv.showErrorModal
    /\ fv' = [fv EXCEPT !.showErrorModal = FALSE, !.errorMessage = ""]
    /\ lastOp' = Op("none", "")
    /\ UNCHANGED <<mounted, widgetVars, exchangeVars, now, lead, retryVars, faydaStore, urlCalls, popup, polls, muleCalls>>

\* The handlers and continuations of the faydaVerification instance
FaydaHandlers ==
    \/ faydaConnectedCallback
    \/ wiredRecord
    \/ faydaCountdownTick
    \/ handleVerificationClick
    \/ verificationUrlOpened
    \/ verificationPopupBlocked
    \/ verificationUrlRejected
    \/ popupClosedByUser
    \/ \E k \in 1..SessionCap :
        \/ pollTick(k)
        \/ muleSoftSuccess(k)
        \/ muleSoftFailure(k)
        \/ muleSoftRejected(k)
    \/ closeConfirmationModal
    \/ closeErrorModal

FaydaTimes == {0, 599999, 600000}

----------------------------------------------------------------------------
(* faydaVerification: confirmation and writeback *)

\* The fields updateLeadRecord(isSuccessful) of faydaVerification sends to
\* updateRecord: the status, and whether identity fields go with it
faydaUpdateFields(f, isSuccessful) ==
    IF isSuccessful /\ f.userInfo # "null"
    THEN [status |-> Verified, identity |-> f.userInfo = "identity"]
    ELSE [status |-> VerificationFailed, identity |-> FALSE]

\* An updateRecord call-out of instance `by`, issued on `path` of its handler
Write(by, fields, path) ==
    [by |-> by, status |-> fields.status, identity |-> fields.identity,
     path |-> path]

\* Call-outs of the exchange and writeback that are outstanding
Outstanding == Len(writes) + Len(procCalls)

\* handleConfirm, up to the await of updateRecord in updateLeadRecord.  The
\* handlers of the confirmation are entered from the confirmation modal.
handleConfirm ==
    /\ fv.connected /\ fv.showConfirmationModal
    /\ Outstanding < MaxSessions
    /\ fv' = [fv EXCEPT !.isLoading = TRUE]
    /\ writes' = Append(writes, Write("fv", faydaUpdateFields(fv, TRUE), "confirm"))
    /\ lastOp' = Op("confirm", "fv")
    /\ UNCHANGED <<mounted, widgetVars, now, lead, retryVars, faydaStore, urlCalls, popup,
                   polls, muleCalls, kycCalls, procCalls>>

\* handleConfirm after updateRecord resolved: the Lead is written and
\* processVerificationResult is called with action 'finish'
faydaWriteDone(k) ==
    /\ k \in 1..Len(writes) /\ writes[k].by = "fv"
    /\ writes' = RemoveAt(writes, k)
    /\ lead' = [lead EXCEPT !.status = writes[k].status]
    /\ procCalls' = Append(procCalls, [action |-> "finish", userInfo |-> fv.userInfo])
    /\ lastOp' = Op("writeOk", "fv")
    /\ UNCHANGED <<mounted, widgetVars, now, retryVars, faydaVars, kycCalls>>

\* handleConfirm after updateRecord rejected: updateLeadRecord rethrows and
\* the catch of handleConfirm shows the error
faydaWriteFailed(k) ==
    /\ k \in 1..Len(writes) /\ writes[k].by = "fv"
    /\ writes' = RemoveAt(writes, k)
    /\ fv' = [showError(fv, "Failed to update lead: " \o "Error updating lead record: ")
              EXCEPT !.isLoading = FALSE]
    /\ lastOp' = Op("writeFailed", "fv")
    /\ UNCHANGED <<mounted, widgetVars, now, lead, retryVars, faydaStore, urlCalls, popup,
                   polls, muleCalls, kycCalls, procCalls>>

\* handleCancel, up to the await of processVerificationResult
handleCancel ==
    /\ fv.connected /\ fv.showConfirmationModal
    /\ Outstanding < MaxSessions
    /\ fv' = [fv EXCEPT !.isLoading = TRUE]
    /\ procCalls' = Append(procCalls, [action |-> "cancel", userInfo |-> "null"])
    /\ lastOp' = Op("cancel", "fv")
    /\ UNCHANGED <<mounted, widgetVars, now, lead, retryVars, faydaStore, urlCalls, popup,
                   polls, muleCalls, kycCalls, writes>>

\* What processVerificationResult answers: a text that starts with SUCCESS,
\* another text, or a rejection
ProcResults == {"SUCCESS", "ERROR: not processed", "rejected"}

\* handleConfirm or handleCancel after the await of processVerificationResult,
\* to the end of the handler (refreshWireData catches its own errors)
procResult(k) ==
    /\ k \in 1..Len(procCalls)
    /\ procCalls' = RemoveAt(procCalls, k)
    /\ \E result \in ProcResults :
        LET done == IF result # "SUCCESS"
                    THEN showError(fv,
                             IF procCalls[k].action = "finish"
                             THEN "Failed to update lead: " \o result
                             ELSE "Failed to cancel verification: " \o result)
                    ELSE IF procCalls[k].action = "finish"
                    THEN [fv EXCEPT !.showConfirmationModal = FALSE,
                                    !.showDetailsModal = TRUE,
                                    !.verificationDetails = fv.userInfo]
                    ELSE [fv EXCEPT !.showConfirmationModal = FALSE,
                                    !.userInfo = "null", !.apiResponse = "null"]
        IN /\ fv' = [done EXCEPT !.isLoading = FALSE]
           /\ lastOp' = Op(IF result = "SUCCESS" THEN "procOk" ELSE "procFailed", "fv")
    /\ UNCHANGED <<mounted, widgetVars, now, lead, retryVars, faydaStore, urlCalls, popup,
                   polls, muleCalls, kycCalls, writes>>

\* closeDetailsModal
closeDetailsModal ==
    /\ fv.connected /\ fv.showDetailsModal
    /\ fv' = [fv EXCEPT !.showDetailsModal = FALSE, !.verificationDetails = "none"]
    /\ lastOp' = Op("none", "")
    /\ UNCHANGED <<mounted, widgetVars, exchangeVars, now, lead, retryVars, faydaStore, urlCalls,
                   popup, polls, muleCalls>>

\* The handlers and continuations of the confirmation of faydaVerification
FaydaConfirmation ==
    \/ handleConfirm
    \/ handleCancel
    \/ \E k \in 1..MaxSessions :
        \/ faydaWriteDone(k)
        \/ faydaWriteFailed(k)
        \/ procResult(k)
    \/ closeDetailsModal

----------------------------------------------------------------------------
(* retryButton: OTP exchange and writeback *)

\* What the user may type into the OTP input
OtpValues == {"", "123456"}

\* handleOtpChange.  The handlers of the OTP input and its submit button are
\* entered from the OTP modal.
handleOtpChange(i) ==
    /\ rb[i].connected /\ rb[i].showOtpModal
    /\ \E v \in OtpValues :
          /\ v # rb[i].otpValue
          /\ rb' = [rb EXCEPT ![i] = [@ EXCEPT !.otpValue = v]]
    /\ lastOp' = Op("none", "")
    /\ UNCHANGED <<mounted, widgetVars, exchangeVars, now, attemptStore, flowStore, lead,
                   otpCalls, faydaVars>>

\* handleOtpVerification, up to the await of fetchKYCDetails
handleOtpVerification(i) ==
    /\ rb[i].connected /\ rb[i].showOtpModal
    /\ IF rb[i].otpValue = ""
       THEN /\ lastOp' = Op("none", "")
            /\ UNCHANGED <<rb, kycCalls>>
       ELSE /\ kycCalls[i] + Outstanding < MaxCalls
            /\ rb' = [rb EXCEPT ![i] = [@ EXCEPT !.otpProcessing = TRUE]]
            /\ kycCalls' = [kycCalls EXCEPT ![i] = @ + 1]
            /\ lastOp' = Op("otpSubmit", i)
    /\ UNCHANGED <<mounted, widgetVars, now, attemptStore, flowStore, lead, otpCalls,
                   faydaVars, writes, procCalls>>

\* What fetchKYCDetails answers.  outputKYCError is the flag the handler
\* requires to be true; identity tells whether the response carries the
\* person's fields.
KycResponses ==
    {[kind |-> "response", statusCode |-> 200, outputKYCError |-> TRUE, identity |-> TRUE],
     [kind |-> "response", statusCode |-> 201, outputKYCError |-> TRUE, identity |-> FALSE],
     [kind |-> "response", statusCode |-> 200, outputKYCError |-> FALSE, identity |-> TRUE],
     [kind |-> "response", statusCode |-> 500, outputKYCError |-> TRUE, identity |-> TRUE],
     [kind |-> "empty", statusCode |-> 0, outputKYCError |-> FALSE, identity |-> FALSE],
     [kind |-> "rejected", statusCode |-> 0, outputKYCError |-> FALSE, identity |-> FALSE]}

\* A handler that takes every response for a verified one
KycAcceptedAlways(r) == r.kind = "response"

\* The branch of handleOtpVerification that treats the response as verified
KycAccepted(r) ==
    /\ r.kind = "response"
    /\ r.statusCode \in {200, 201}
    /\ r.outputKYCError

\* The message handleOtpVerification hands to handleError
KycErrorMessage(r) ==
    IF r.kind = "rejected" THEN "Error during KYC verification: " \o "Server error"
    ELSE IF r.kind = "empty" THEN "No response received from verification service."
    ELSE IF r.statusCode \notin {200, 201}
    THEN "Service returned error status: " \o ToString(r.statusCode)
    ELSE "OTP verification failed or KYC validation unsuccessful"

\* The fields updateLeadRecord(isSuccessful) of retryButton sends to
\* updateRecord; kycDetails is an object from construction on, so its test
\* always passes
retryUpdateFields(c, isSuccessful) ==
    IF isSuccessful
    THEN [status |-> VerificationSuccessful, identity |-> c.kycDetails = "identity"]
    ELSE [status |-> VerificationFailed, identity |-> FALSE]

\* handleOtpVerification after the await of fetchKYCDetails, up to the await
\* of updateRecord in updateLeadRecord
kycAnswered(i, r) ==
    /\ kycCalls[i] > 0
    /\ kycCalls' = [kycCalls EXCEPT ![i] = @ - 1]
    /\ IF KycAccepted(r)
        THEN LET c1 == [rb[i] EXCEPT
                            !.kycDetails = IF r.identity THEN "identity" ELSE "response",
                            !.showKycModal = TRUE, !.showOtpModal = FALSE,
                            !.otpValue = ""]
             IN /\ rb' = [rb EXCEPT ![i] = c1]
                /\ writes' = Append(writes, Write(i, retryUpdateFields(c1, TRUE), "success"))
                /\ lastOp' = Op("exchangeOk", i)
        ELSE LET c1 == handleError(rb[i], KycErrorMessage(r))
             IN /\ rb' = [rb EXCEPT ![i] = c1]
                /\ writes' = Append(writes, Write(i, retryUpdateFields(c1, FALSE), "failure"))
                /\ lastOp' = Op("exchangeFailed", i)
    /\ UNCHANGED <<mounted, widgetVars, now, attemptStore, flowStore, lead, otpCalls,
                   faydaVars, procCalls>>

kycResponse(i) == \E r \in KycResponses : kycAnswered(i, r)

\* handleOtpVerification after the await of updateLeadRecord, to the end of
\* the handler (refreshWireData catches its own errors)
AfterUpdateLeadRecord(c, path) ==
    IF path = "success"
    THEN [c EXCEPT !.currentStep = "success", !.otpProcessing = FALSE]
    ELSE [c EXCEPT !.showOtpModal = FALSE, !.otpProcessing = FALSE]

\* updateRecord resolved: the Lead is written
retryWriteDone(k) ==
    /\ k \in 1..Len(writes) /\ writes[k].by \in Tabs
    /\ writes' = RemoveAt(writes, k)
    /\ lead' = [lead EXCEPT !.status = writes[k].status]
    /\ rb' = [rb EXCEPT ![writes[k].by] = AfterUpdateLeadRecord(@, writes[k].path)]
    /\ lastOp' = Op("writeOk", writes[k].by)
    /\ UNCHANGED <<mounted, widgetVars, now, attemptStore, flowStore, otpCalls, faydaVars,
                   kycCalls, procCalls>>

\* updateRecord rejected: updateLeadRecord catches the error, shows a toast
\* and returns
retryWriteFailed(k) ==
    /\ k \in 1..Len(writes) /\ writes[k].by \in Tabs
    /\ writes' = RemoveAt(writes, k)
    /\ rb' = [rb EXCEPT ![writes[k].by] = AfterUpdateLeadRecord(@, writes[k].path)]
    /\ lastOp' = Op("writeFailed", writes[k].by)
    /\ UNCHANGED <<mounted, widgetVars, now, attemptStore, flowStore, lead, otpCalls,
                   faydaVars, kycCalls, procCalls>>

\* handleCloseKycModal
handleCloseKycModal(i) ==
    /\ rb[i].connected /\ rb[i].showKycModal
    /\ rb' = [rb EXCEPT ![i] = [@ EXCEPT !.showKycModal = FALSE]]
    /\ lastOp' = Op("none", "")
    /\ UNCHANGED <<mounted, widgetVars, exchangeVars, now, attemptStore, flowStore, lead,
                   otpCalls, faydaVars>>

\* The handlers and continuations of the OTP exchange of retryButton
RetryExchange(tabs) ==
    \/ \E i \in tabs :
        \/ handleOtpChange(i)
        \/ handleOtpVerification(i)
        \/ kycResponse(i)
        \/ handleCloseKycModal(i)
    \/ \E k \in 1..MaxCalls :
        \/ retryWriteDone(k)
        \/ retryWriteFailed(k)

----------------------------------------------------------------------------
(* Specifications *)

\* A record page that shows one retryButton or one faydaVerification
Next ==
    \/ AdvanceClock(IF mounted = "retryButton" THEN TimePoints ELSE FaydaTimes)
    \/ LeadUpdate(IF mounted = "retryButton"
                  THEN {"", VerificationSuccessful} ELSE {"", Verified})
    \/ RetryHandlers({"tab1"})
    \/ FaydaHandlers

Spec == Init /\ [][Next]_vars

\* Two browser tabs showing the retryButton of the same record: the
\* handlers that read or write the stored attempts
TabTimes == {0, 5000, 100000, 599999}

TabsNext ==
    \/ AdvanceClock(TabTimes)
    \/ \E i \in Tabs :
        \/ connectedCallback(i)
        \/ wired(i)
        \/ countdownTick(i)
        \/ handleRetry(i)
        \/ sendOTPSuccess(i)
        \/ sendOTPFailure(i)

SpecTabs == InitOf("retryButton") /\ [][TabsNext]_vars

\* One retryButton, observed at the instants of the 600 s scenario
ScenarioTimes == {0, 100000, 200000, 250000, 601000}

ScenarioNext ==
    \/ AdvanceClock(ScenarioTimes)
    \/ LeadUpdate({"", VerificationSuccessful})
    \/ RetryHandlers({"tab1"})

SpecScenario == InitOf("retryButton") /\ [][ScenarioNext]_vars

\* A page followed through the whole flow of its component
FlowTimes == {0, 5000}

FlowNext ==
    \/ AdvanceClock(IF mounted = "retryButton" THEN FlowTimes ELSE {})
    \/ RetryHandlers({"tab1"})
    \/ RetryExchange({"tab1"})
    \/ FaydaHandlers
    \/ FaydaConfirmation

SpecFlow == (InitOf("retryButton") \/ InitOf("faydaFlow")) /\ [][FlowNext]_vars

\* A faydaVerification whose sessions overlap, at one instant
SpecPopups == InitOf("faydaPopups") /\ [][FaydaHandlers]_vars

\* Two tabs that show two different records
RecordTimes == {0, 5000, 10000}

RecordsNext ==
    \/ AdvanceClock(RecordTimes)
    \/ \E i \in Tabs :
        \/ connectedCallback(i)
        \/ wired(i)
        \/ handleRetry(i)
        \/ sendOTPSuccess(i)
        \/ handleCancelOtp(i)

SpecRecords == InitOf("twoRecords") /\ [][RecordsNext]_vars

\* Another user enters the National FCN id of the Lead
LeadFcnUpdate ==
    /\ lead.fcn = ""
    /\ lead' = [lead EXCEPT !.fcn = "FCN-1"]
    /\ lastOp' = Op("none", "")
    /\ UNCHANGED <<mounted, widgetVars, exchangeVars, now, retryVars, faydaVars>>

\* A retryButton page of a Lead whose FCN id may be missing at first
ValidationTimes == {0, 4999, 5000}

ValidationNext ==
    \/ AdvanceClock(ValidationTimes)
    \/ LeadFcnUpdate
    \/ RetryHandlers({"tab1"})

SpecValidation == InitOf("retryButton") /\ [][ValidationNext]_vars

----------------------------------------------------------------------------
(* Failures of localStorage *)

\* Another script leaves a text that is not JSON under the attempts key
storageCorrupted ==
    /\ mounted \in RetryPages
    /\ attemptStore["lead-A"] # Unreadable
    /\ attemptStore' = [attemptStore EXCEPT !["lead-A"] = Unreadable]
    /\ lastOp' = Op("none", "")
    /\ UNCHANGED <<mounted, widgetVars, exchangeVars, now, lead, flowStore, rb, otpCalls, faydaVars>>

\* The setItem calls of an accepted start, in their order
StartWrites == {"flow", "attempts"}

\* handleRetry when localStorage.setItem throws (the quota is exceeded):
\* nothing catches the error, the handler ends at the throwing call
handleRetrySetItemThrows(i) ==
    /\ rb[i].connected
    /\ ~RetryBlocked(rb[i], flowStore[recordId(i)], now)
    /\ rb[i].fcnId # ""
    /\ attemptStore[recordId(i)] = NoItem \/ Parses(attemptStore[recordId(i)])
    /\ \E failing \in StartWrites :
          IF failing = "flow"
          THEN /\ rb' = [rb EXCEPT ![i] = [@ EXCEPT !.flowStarted = TRUE]]
               /\ UNCHANGED flowStore
          ELSE /\ rb' = [rb EXCEPT ![i] = [@ EXCEPT !.flowStarted = TRUE,
                                                    !.currentStep = "processing"]]
               /\ flowStore' = [flowStore EXCEPT ![recordId(i)] = markFlowAsExecuted(now)]
    /\ lastOp' = Op("writeThrew", i)
    /\ UNCHANGED <<mounted, widgetVars, exchangeVars, now, lead, attemptStore, otpCalls, faydaVars>>

\* handleVerificationClick when localStorage.setItem throws in
\* updateAttemptTracking: the catch block of the handler shows the error
handleVerificationClickSetItemThrows ==
    /\ fv.connected /\ ~fv.rateLimitExceeded
    /\ fv' = [showError([fv EXCEPT !.errorMessage = "QuotaExceededError"],
                        "Failed to start verification: " \o "QuotaExceededError")
              EXCEPT !.isLoading = FALSE]
    /\ lastOp' = Op("writeThrew", "fv")
    /\ UNCHANGED <<mounted, widgetVars, exchangeVars, now, lead, retryVars, faydaStore,
                   urlCalls, popup, polls, muleCalls>>

\* A page whose localStorage fails
StorageTimes == {0, 5000, 10000}

StorageNext ==
    \/ AdvanceClock(IF mounted = "retryButton" THEN StorageTimes ELSE {})
    \/ storageCorrupted
    \/ handleRetrySetItemThrows("tab1")
    \/ handleVerificationClickSetItemThrows
    \/ RetryHandlers({"tab1"})
    \/ FaydaHandlers

SpecStorage == Init /\ [][StorageNext]_vars

\* A page whose component is also removed from the page and inserted again
TeardownTimes == {0, 5000, 10000, 600000}

TeardownNext ==
    \/ AdvanceClock(IF mounted = "retryButton" THEN TeardownTimes ELSE FaydaTimes)
    \/ LeadUpdate(IF mounted = "retryButton"
                  THEN {"", VerificationSuccessful} ELSE {"", Verified})
    \/ RetryHandlers({"tab1"})
    \/ FaydaHandlers
    \/ faydaDisconnectedCallback

SpecTeardown == Init /\ [][TeardownNext]_vars

----------------------------------------------------------------------------
(* faydaVerification: scheduling *)

\* The call-outs of a session are answered, and a running interval keeps
\* calling its callback
SessionFairness ==
    /\ WF_vars(verificationUrlOpened \/ verificationPopupBlocked \/ verificationUrlRejected)
    /\ \A k \in 1..MaxPopups : WF_vars(pollTick(k))
    /\ WF_vars(\E k \in 1..MaxPopups :
                  muleSoftSuccess(k) \/ muleSoftFailure(k) \/ muleSoftRejected(k))

SpecPopupsFair == SpecPopups /\ SessionFairness

----------------------------------------------------------------------------
(* The statuses faydaVerification shows as verified *)

\* updateButtonState sets showVerifiedStatus for these statuses
ShownAsVerified == {Verified, VerificationSuccessful, "Code Captured"}

StatusTimes == {0, 600000}

\* A faydaVerification page of a Lead whose status takes each of them
StatusNext ==
    \/ AdvanceClock(StatusTimes)
    \/ LeadUpdate(ShownAsVerified \cup {""})
    \/ FaydaHandlers

SpecStatuses == InitOf("faydaVerification") /\ [][StatusNext]_vars

----------------------------------------------------------------------------
(* The countdown text *)

\* The whole seconds of the remaining times followed: the first minute and
\* its end, and the minutes around the ends of the window
SecondsLeft ==
    (0..61) \cup {119, 120, 539, 540, 541, 598, 599} \cup {timeWindowMs \div 1000}

\* The remaining times updateTimeUntilReset is called with: each of these
\* seconds, the millisecond after it and the millisecond before the next
\* one, and times at or past the reset
TimeLefts ==
    {-1000, -1, 0} \cup
    {tl \in {s * 1000 + d : s \in SecondsLeft, d \in {0, 1, 999}} :
        tl <= timeWindowMs}

\* updateTimeUntilReset(timeLeft) of a retryButton
updateTimeUntilResetCalled(i, timeLeft) ==
    /\ mounted \in RetryPages
    /\ rb' = [rb EXCEPT ![i] = updateTimeUntilReset(rb[i], timeLeft)]
    /\ lastOp' = Op("format", i)
    /\ UNCHANGED <<mounted, widgetVars, now, lead, attemptStore, flowStore, otpCalls,
                   faydaVars, exchangeVars>>

\* updateTimeUntilReset(timeLeft) of the faydaVerification
faydaUpdateTimeUntilResetCalled(timeLeft) ==
    /\ mounted \in FaydaPages
    /\ fv' = faydaUpdateTimeUntilReset(fv, timeLeft)
    /\ lastOp' = Op("format", "fv")
    /\ UNCHANGED <<mounted, widgetVars, now, lead, retryVars, faydaStore, urlCalls, popup,
                   polls, muleCalls, exchangeVars>>

CountdownNext ==
    \/ \E timeLeft \in TimeLefts : updateTimeUntilResetCalled("tab1", timeLeft)
    \/ \E timeLeft \in TimeLefts : faydaUpdateTimeUntilResetCalled(timeLeft)

SpecCountdown == Init /\ [][CountdownNext]_vars

----------------------------------------------------------------------------
(* The document viewers: universalDocumentViewer, viewDocument and the     *)
(* ViewDocument of part_000, which opens on the first document             *)

ViewerPages == {"universalDocumentViewer", "viewDocument", "viewDocumentPreview"}

\* What getRecordDocuments / getAccountDocuments may return: the documents
\* of the record at that time (null counts as none)
DocLists == {[k \in 1..n |-> k] : n \in 0..MaxDocs}

\* data-index of the item an event comes from; -1 stands for a value
\* parseInt does not read as an index
DataIndexes == -1..MaxDocs

hasDocuments(c) == Len(c.documents) > 0

hasNext(c) == hasDocuments(c) /\ c.currentIndex < Len(c.documents) - 1

hasPrevious(c) == hasDocuments(c) /\ c.currentIndex > 0

nextDocument(c) ==
    IF hasNext(c) THEN [c EXCEPT !.currentIndex = @ + 1] ELSE c

previousDocument(c) ==
    IF hasPrevious(c) THEN [c EXCEPT !.currentIndex = @ - 1] ELSE c

jumpToDocument(c, index) ==
    IF index >= 0 /\ index < Len(c.documents)
    THEN [c EXCEPT !.currentIndex = index] ELSE c

jumpToFirst(c) ==
    IF hasDocuments(c) THEN [c EXCEPT !.currentIndex = 0] ELSE c

jumpToLast(c) ==
    IF hasDocuments(c) THEN [c EXCEPT !.currentIndex = Len(c.documents) - 1] ELSE c

toggleFullscreen(c) == [c EXCEPT !.isFullscreen = ~@]

\* closeZoomView / closeViewer: the keydown listener is removed
closeViewer(c) == [c EXCEPT !.isViewerOpen = FALSE, !.listening = FALSE]

\* openZoomView / openDocumentViewer, from the grid item with data-index
openDocumentViewer(c, index) ==
    IF index >= 0 /\ index < Len(c.documents)
    THEN [c EXCEPT !.currentIndex = index, !.isViewerOpen = TRUE,
                   !.isFullscreen = FALSE, !.listening = TRUE]
    ELSE c

\* handlePreviewAll and openViewer of part_000
handlePreviewAll(c) ==
    IF hasDocuments(c)
    THEN [c EXCEPT !.currentIndex = 0, !.isViewerOpen = TRUE,
                   !.isFullscreen = TRUE, !.listening = TRUE]
    ELSE c

Keys == {"ArrowLeft", "ArrowRight", "Escape", "Home", "End", "f", "x"}

handleKeyPress(c, key) ==
    IF ~c.isViewerOpen THEN c
    ELSE CASE key = "ArrowLeft" -> previousDocument(c)
           [] key = "ArrowRight" -> nextDocument(c)
           [] key = "Escape" -> closeViewer(c)
           [] key = "Home" -> jumpToFirst(c)
           [] key = "End" -> jumpToLast(c)
           [] key = "f" -> toggleFullscreen(c)
           [] OTHER -> c

\* loadDocuments, up to the call of the Apex method
loadDocuments(v) ==
    [c |-> [v.c EXCEPT !.isLoading = TRUE,
                       !.error = IF mounted = "universalDocumentViewer"
                                 THEN "undefined" ELSE @],
     loads |-> v.loads + 1]

ViewerStep(v, op) ==
    /\ viewer' = v
    /\ lastOp' = Op(op, "viewer")
    /\ UNCHANGED <<mounted, now, lead, retryVars, faydaVars, exchangeVars, sig, chat>>

viewerConnectedCallback ==
    /\ mounted \in ViewerPages
    /\ ~viewer.c.connected /\ viewer.loads < MaxLoads
    /\ ViewerStep(loadDocuments([viewer EXCEPT !.c.connected = TRUE]), "load")

viewerDisconnectedCallback ==
    /\ viewer.c.connected
    /\ ViewerStep([viewer EXCEPT !.c.connected = FALSE, !.c.listening = FALSE],
                  "disconnect")

\* refresh / refreshDocuments of universalDocumentViewer
refreshDocuments ==
    /\ mounted = "universalDocumentViewer"
    /\ viewer.c.connected /\ viewer.loads < MaxLoads
    /\ ViewerStep(loadDocuments(viewer), "load")

\* The .then of loadDocuments
documentsLoaded ==
    /\ viewer.loads > 0
    /\ \E result \in DocLists :
          ViewerStep([c |-> [viewer.c EXCEPT !.documents = result,
                                             !.isLoading = FALSE],
                      loads |-> viewer.loads - 1], "loaded")

\* The .catch of loadDocuments
documentsFailed ==
    /\ viewer.loads > 0
    /\ ViewerStep([c |-> [viewer.c EXCEPT !.error = "error", !.isLoading = FALSE],
                   loads |-> viewer.loads - 1], "loadFailed")

\* A click on a grid item (the preview button in part_000)
viewerOpened ==
    /\ viewer.c.connected
    /\ IF mounted = "viewDocumentPreview"
       THEN ViewerStep([viewer EXCEPT !.c = handlePreviewAll(@)], "open")
       ELSE \E index \in DataIndexes :
               ViewerStep([viewer EXCEPT !.c = openDocumentViewer(@, index)], "open")

\* The buttons and thumbnails of the open viewer
viewerClicked ==
    /\ viewer.c.connected /\ viewer.c.isViewerOpen
    /\ \/ ViewerStep([viewer EXCEPT !.c = nextDocument(@)], "next")
       \/ ViewerStep([viewer EXCEPT !.c = previousDocument(@)], "previous")
       \/ \E index \in DataIndexes :
             ViewerStep([viewer EXCEPT !.c = jumpToDocument(@, index)], "jump")
       \/ ViewerStep([viewer EXCEPT !.c = toggleFullscreen(@)], "fullscreen")
       \/ ViewerStep([viewer EXCEPT !.c = closeViewer(@)], "close")

\* A keydown event on the document while the listener is attached
viewerKeyDown ==
    /\ viewer.c.listening
    /\ \E key \in Keys :
          ViewerStep([viewer EXCEPT !.c = handleKeyPress(@, key)], key)

ViewerNext ==
    \/ viewerConnectedCallback
    \/ viewerDisconnectedCallback
    \/ refreshDocuments
    \/ documentsLoaded
    \/ documentsFailed
    \/ viewerOpened
    \/ viewerClicked
    \/ viewerKeyDown

SpecViewer == (\E page \in ViewerPages : InitOf(page)) /\ [][ViewerNext]_vars

----------------------------------------------------------------------------
(* signatureCapture: the canvas and its undo history *)

updateUndoRedoButtons(g) ==
    [g EXCEPT !.canUndo = g.historyIndex > 0,
              !.canRedo = g.historyIndex < Len(g.history) - 1]

\* A saveToHistory that pushes without slicing
saveToHistoryUnsliced(g) ==
    updateUndoRedoButtons(
        [g EXCEPT !.history = Append(@, g.ink), !.historyIndex = @ + 1])

\* saveToHistory: getImageData is what the canvas shows now
saveToHistory(g) ==
    updateUndoRedoButtons(
        [g EXCEPT !.history = Append(SubSeq(@, 1, g.historyIndex + 1), g.ink),
                  !.historyIndex = @ + 1])

\* clearCanvas: fillRect paints the canvas white
clearCanvas(g) ==
    saveToHistory([g EXCEPT !.ink = {}, !.hasSignature = FALSE])

\* handleMouseDown / handleTouchStart
handleMouseDown(g) ==
    saveToHistory([g EXCEPT !.isDrawing = TRUE, !.strokes = @ + 1])

\* handleMouseMove / handleTouchMove: draw adds to the stroke begun last
handleMouseMove(g) ==
    IF ~g.isDrawing THEN g
    ELSE [g EXCEPT !.ink = @ \cup {g.strokes}, !.hasSignature = TRUE]

handleMouseUp(g) == [g EXCEPT !.isDrawing = FALSE]

\* undo: putImageData shows the snapshot at the new index
undo(g) ==
    IF g.historyIndex > 0
    THEN updateUndoRedoButtons(
             [g EXCEPT !.historyIndex = @ - 1,
                       !.ink = g.history[g.historyIndex],
                       !.hasSignature = g.historyIndex - 1 > 0])
    ELSE g

redo(g) ==
    IF g.historyIndex < Len(g.history) - 1
    THEN updateUndoRedoButtons(
             [g EXCEPT !.historyIndex = @ + 1,
                       !.ink = g.history[g.historyIndex + 2],
                       !.hasSignature = TRUE])
    ELSE g

SignatureStep(g, op) ==
    /\ sig' = g
    /\ lastOp' = Op(op, "signature")
    /\ UNCHANGED <<mounted, now, lead, retryVars, faydaVars, exchangeVars, viewer, chat>>

\* renderedCallback: the first rendering initialises the canvas
renderedCallback ==
    /\ mounted = "signatureCapture"
    /\ sig.canvas = "null"
    /\ SignatureStep(clearCanvas([sig EXCEPT !.canvas = "canvas"]), "initCanvas")

strokeStarted ==
    /\ sig.canvas # "null"
    /\ sig.strokes < MaxStrokes /\ Len(sig.history) < MaxHistory
    /\ SignatureStep(handleMouseDown(sig), "strokeStart")

strokeDrawn ==
    /\ sig.canvas # "null"
    /\ SignatureStep(handleMouseMove(sig), "draw")

strokeEnded ==
    /\ sig.canvas # "null"
    /\ SignatureStep(handleMouseUp(sig), "strokeEnd")

clearSignature ==
    /\ sig.canvas # "null"
    /\ Len(sig.history) < MaxHistory
    /\ SignatureStep(clearCanvas(sig), "clear")

undoClicked ==
    /\ sig.canvas # "null"
    /\ SignatureStep(undo(sig), "undo")

redoClicked ==
    /\ sig.canvas # "null"
    /\ SignatureStep(redo(sig), "redo")

SignatureNext ==
    \/ renderedCallback
    \/ strokeStarted
    \/ strokeDrawn
    \/ strokeEnded
    \/ clearSignature
    \/ undoClicked
    \/ redoClicked

SpecSignature == InitOf("signatureCapture") /\ [][SignatureNext]_vars

----------------------------------------------------------------------------
(* telegramConversation (and sendTelegramMessage, whose sendMessage,       *)
(* handleKeyPress and isSendDisabled are the same)                         *)

\* What the wire of getOrCreateConversation delivers as result.data
ConversationResults ==
    [thread : {"undefined", "thread-1"}, hasActiveSession : BOOLEAN]

\* The texts typed into the message box
MessageTexts == {"", "  ", "hello"}

\* String.prototype.trim
Trim(text) == IF text = "  " THEN "" ELSE text

\* get isSendDisabled
isSendDisabled(c) ==
    \/ c.isSending
    \/ (Trim(c.messageText) = "" /\ c.attachmentUrl = "")
    \/ ~(c.conversationData.hasActiveSession = TRUE)

\* The test sendMessage returns on
sendRefused(c) ==
    \/ (Trim(c.messageText) = "" /\ c.attachmentUrl = "")
    \/ c.conversationData.thread = "undefined"

clearAttachment(c) == [c EXCEPT !.attachmentUrl = ""]

\* loadConversation; recordId is the id of a Lead
loadConversation(c) == [c EXCEPT !.isLoading = TRUE]

ChatStep(v, op) ==
    /\ mounted = "telegramConversation"
    /\ chat' = v
    /\ lastOp' = Op(op, "chat")
    /\ UNCHANGED <<mounted, now, lead, retryVars, faydaVars, exchangeVars, viewer, sig>>

\* wiredConversation with result.data
wiredConversation ==
    \E data \in ConversationResults :
        ChatStep([chat EXCEPT !.c.conversationData = data, !.c.isLoading = FALSE],
                 "wired")

handleMessageInput ==
    \E text \in MessageTexts :
        /\ text # chat.c.messageText
        /\ ChatStep([chat EXCEPT !.c.messageText = text], "input")

handleFileChange ==
    /\ chat.c.attachmentUrl = ""
    /\ ChatStep([chat EXCEPT !.c.attachmentUrl = "file://photo.png"], "file")

attachmentCleared ==
    /\ chat.c.attachmentUrl # ""
    /\ ChatStep([chat EXCEPT !.c = clearAttachment(@)], "fileCleared")

\* sendMessage, up to the await of the Apex call
sendMessage(by) ==
    IF sendRefused(chat.c)
    THEN ChatStep(chat, "sendRefused")
    ELSE /\ Len(chat.sends) < MaxCalls
         /\ ChatStep([c |-> [chat.c EXCEPT !.isSending = TRUE],
                      sends |-> Append(chat.sends,
                                    [threadId |-> chat.c.conversationData.thread,
                                     messageText |-> chat.c.messageText,
                                     attachmentUrl |-> chat.c.attachmentUrl,
                                     by |-> by])],
                     "sendIssued")

\* A click on the send button
sendClicked == sendMessage("button")

\* handleKeyPress for Enter without Shift
enterPressed == sendMessage("enter")

SendResults == {"SUCCESS", "ERROR: not sent", "rejected"}

\* sendMessage after the await, to the end of its finally
sendAnswered ==
    \E k \in 1..Len(chat.sends), result \in SendResults :
        LET done == IF result = "SUCCESS"
                    THEN loadConversation(
                             clearAttachment([chat.c EXCEPT !.messageText = ""]))
                    ELSE chat.c
        IN ChatStep([c |-> [done EXCEPT !.isSending = FALSE],
                     sends |-> RemoveAt(chat.sends, k)],
                    "sendAnswered")

ChatNext ==
    \/ wiredConversation
    \/ handleMessageInput
    \/ handleFileChange
    \/ attachmentCleared
    \/ sendClicked
    \/ enterPressed
    \/ sendAnswered

SpecChat == InitOf("telegramConversation") /\ [][ChatNext]_vars

----------------------------------------------------------------------------
(* The vocabulary of the properties *)

\* The instances: the retryButton of each tab and the faydaVerification
Instances == Tabs \cup {"fv"}

\* The stored attempts of the instance's storage key, as a sequence
StoreOf(i) == IF i = "fv" THEN faydaStore ELSE attemptStore[recordId(i)]

\* The time of the last accepted start, under the flow key of the instance
FlowOf(i) == flowStore[recordId(i)]

Stored(i) == IF StoreOf(i).present THEN JSONparse(StoreOf(i)) ELSE <<>>

\* The remaining attempts and the exceeded flag the instance shows
Remaining(i) == IF i = "fv" THEN fv.verificationAttempts ELSE rb[i].remainingAttempts

Exceeded(i) == IF i = "fv" THEN fv.rateLimitExceeded ELSE rb[i].isRateLimited

ResetText(i) == IF i = "fv" THEN fv.timeRemaining ELSE rb[i].timeUntilReset

\* The instance holds its component's terminal verified status
AlreadyVerified(i) ==
    IF i = "fv" THEN fv.currentStatus = Verified
    ELSE rb[i].status = VerificationSuccessful

\* ts lies in the half-open window (t - timeWindowMs, t]
InWindow(ts, t) == t - timeWindowMs < ts /\ ts <= t

CountInWindow(seq, t) == Cardinality({k \in DOMAIN seq : InWindow(seq[k], t)})

Max0(n) == IF n > 0 THEN n ELSE 0

Oldest(seq) == CHOOSE x \in {seq[k] : k \in DOMAIN seq} :
                   \A k \in DOMAIN seq : x <= seq[k]

\* The notes of the steps that evaluate the limit, and of the starts
StartAccepted == {"retryAccepted", "clickAccepted"}

StartBlocked == {"retryBlocked", "clickBlocked"}

Evaluating == {"eval", "evalTick"} \cup StartAccepted

RetryOps == {"retryBlocked", "retryNoFcn", "retryAccepted"}

----------------------------------------------------------------------------
(* Properties *)

\* C1: after every evaluation of an instance that is not verified, the
\* remaining attempts it shows equal max(0, MAX_ATTEMPTS - number of stored
\* attempts inside the window), also when several tabs record attempts of
\* the same record
C1_RemainingIsClampedCount ==
    \A i \in Instances :
        (lastOp.tab = i /\ lastOp.op \in Evaluating /\ ~AlreadyVerified(i))
            => Remaining(i) = Max0(MAX_ATTEMPTS - CountInWindow(Stored(i), now))

\* C2: an accepted start whose predecessors are all still inside the window
\* lowers the remaining attempts by exactly one, from MAX_ATTEMPTS at the
\* first attempt down to 0
C2_EachAttemptLowersByOne ==
    [][\A i \in Instances :
          (/\ lastOp'.tab = i /\ lastOp'.op \in StartAccepted
           /\ \A k \in DOMAIN Stored(i) : InWindow(Stored(i)[k], now')
           /\ Remaining(i) > 0)
              => /\ Remaining(i)' = Remaining(i) - 1
                 /\ Remaining(i)' = MAX_ATTEMPTS - Len(Stored(i)')
                 /\ Len(Stored(i)') = Len(Stored(i)) + 1
                 /\ (Stored(i) = <<>> => Remaining(i) = MAX_ATTEMPTS)]_vars

C2_ReachedZero ==
    /\ lastOp = Op("retryAccepted", "tab1")
    /\ Len(Stored("tab1")) = MAX_ATTEMPTS
    /\ \A k \in DOMAIN Stored("tab1") : InWindow(Stored("tab1")[k], now)
    /\ Remaining("tab1") = 0

\* C3: an evaluation at time now keeps and counts exactly the attempts with
\* now - timeWindowMs < timestamp: an attempt made at now - timeWindowMs is
\* dropped from the storage, one made a millisecond later is still counted
C3_HalfOpenWindow ==
    [][\A i \in Instances :
          (lastOp'.tab = i /\ lastOp'.op \in Evaluating /\ ~AlreadyVerified(i)')
              => LET before == IF lastOp'.op \in StartAccepted
                               THEN Append(Stored(i), now') ELSE Stored(i)
                     Keep(ts) == ts >= now' - timeWindowMs + 1
                 IN /\ Stored(i)' = SelectSeq(before, Keep)
                    /\ Remaining(i)' = MAX_ATTEMPTS - Len(Stored(i)')]_vars

C3_BoundaryAttemptDropped ==
    /\ lastOp.op \in {"eval", "evalTick"} /\ lastOp.tab \in Instances
    /\ now = timeWindowMs
    /\ ~AlreadyVerified(lastOp.tab)
    /\ StoreOf(lastOp.tab) = Item(<<>>)
    /\ Remaining(lastOp.tab) = MAX_ATTEMPTS

\* The 600 s scenario: attempts were recorded at 0 s, 100 s and 200 s and the
\* retryButton evaluates at time t
Scenario(t) ==
    /\ lastOp'.tab = "tab1" /\ lastOp'.op \in {"eval", "evalTick"}
    /\ now' = t
    /\ Stored("tab1") = <<0, 100000, 200000>>
    /\ ~AlreadyVerified("tab1")'

ScenarioAt250 ==
    Scenario(250000) => /\ Remaining("tab1")' = 0
                        /\ Exceeded("tab1")'
                        /\ ResetText("tab1")' = "05:50"

\* C4 as stated: the reset time of an exceeded limit is the oldest attempt
\* inside the window plus the window; with attempts at 0 s, 100 s and 200 s
\* the evaluation at 250 s shows 0 remaining, exceeded, reset at 600 s, and
\* the evaluation at 601 s shows 3 remaining and not exceeded
C4_ScenarioAsStated ==
    [][/\ ScenarioAt250
       /\ Scenario(601000) => /\ Remaining("tab1")' = MAX_ATTEMPTS
                              /\ ~Exceeded("tab1")']_vars

\* C4, amended: the reset time of an exceeded limit is the oldest attempt
\* inside the window plus the window; with attempts at 0 s, 100 s and 200 s
\* the evaluation at 250 s shows 0 remaining, exceeded, reset at 600 s, and
\* the evaluation at 601 s drops the attempt of 0 s only: 1 remaining and
\* not exceeded
C4_ResetFromOldest ==
    [][/\ \A i \in Instances :
            (/\ lastOp'.tab = i /\ lastOp'.op \in Evaluating
             /\ ~AlreadyVerified(i)' /\ Exceeded(i)')
                => ResetText(i)' =
                       FormatTimeLeft(Oldest(Stored(i)') + timeWindowMs - now')
       /\ ScenarioAt250
       /\ Scenario(601000) => /\ Stored("tab1")' = <<100000, 200000>>
                              /\ Remaining("tab1")' = 1
                              /\ ~Exceeded("tab1")']_vars

C4_EvaluatedAt601 ==
    /\ lastOp = Op("evalTick", "tab1")
    /\ now = 601000
    /\ Stored("tab1") = <<100000, 200000>>
    /\ Remaining("tab1") = 1
    /\ ~Exceeded("tab1")

\* C5: an evaluation of an instance that is not verified which finds no
\* stored attempt inside the window shows MAX_ATTEMPTS remaining and not
\* exceeded
C5_ResetWhenWindowEmpty ==
    \A i \in Instances :
        (/\ lastOp.tab = i /\ lastOp.op \in {"eval", "evalTick"}
         /\ ~AlreadyVerified(i)
         /\ CountInWindow(Stored(i), now) = 0)
            => /\ ~Exceeded(i)
               /\ Remaining(i) = MAX_ATTEMPTS

C5_LimitLifted ==
    /\ lastOp.op = "evalTick" /\ lastOp.tab \in Instances
    /\ ~AlreadyVerified(lastOp.tab)
    /\ StoreOf(lastOp.tab) = Item(<<>>)
    /\ ~Exceeded(lastOp.tab)
    /\ Remaining(lastOp.tab) = MAX_ATTEMPTS

\* What an evaluation reports
Result(i) == <<Exceeded(i), Remaining(i), ResetText(i)>>

\* C6: every evaluation of an instance whose status is the terminal verified
\* status reports the limit as exceeded, whatever is stored, leaves the
\* stored attempts as they are, and repeated gives the same result
C6_VerifiedForcesExceeded ==
    [][\A i \in Instances :
          (lastOp'.tab = i /\ lastOp'.op \in {"eval", "evalTick"}
           /\ AlreadyVerified(i)')
              => /\ Exceeded(i)'
                 /\ StoreOf(i)' = StoreOf(i)
                 /\ AlreadyVerified(i) => Result(i)' = Result(i)]_vars

C6_VerifiedWithNothingStored ==
    /\ lastOp.op = "eval" /\ lastOp.tab \in Instances
    /\ AlreadyVerified(lastOp.tab)
    /\ StoreOf(lastOp.tab) = NoItem
    /\ Exceeded(lastOp.tab)

\* A verification session of the instance is under way: initiating, awaiting
\* the OTP or the popup, exchanging, or awaiting confirmation
SessionActive(i) ==
    IF i = "fv"
    THEN \/ fv.isLoading \/ urlCalls > 0 \/ polls # <<>> \/ muleCalls # <<>>
         \/ fv.showConfirmationModal
    ELSE \/ rb[i].flowStarted \/ otpCalls[i] > 0
         \/ rb[i].showOtpModal \/ rb[i].otpProcessing

\* C7: a start is accepted only when no verification session of the
\* instance is under way
C7_StartOnlyWhenIdle ==
    [][\A i \in Instances :
          (lastOp'.tab = i /\ lastOp'.op \in StartAccepted)
              => ~SessionActive(i)]_vars

\* C8: every exchange call carries the state token that was extracted from
\* the verification URL at initiation
C8_ExchangeOnlyWithMatchingState ==
    \A k \in DOMAIN muleCalls : muleCalls[k].state = muleCalls[k].currentState

\* The step is a start request of instance i
StartStep(i) ==
    lastOp'.tab = i /\ lastOp'.op \in RetryOps \cup {"clickBlocked", "clickAccepted"}

\* C9: a start request made while the instance's limit is exceeded is
\* rejected and changes nothing: no stored attempt, no call-out, no flag or
\* step of the flow
C9_BlockedStartChangesNothing ==
    [][\A i \in Instances :
          (StartStep(i) /\ Exceeded(i))
              => /\ lastOp'.op \in StartBlocked
                 /\ UNCHANGED <<attemptStore, flowStore, rb, otpCalls,
                                faydaStore, fv, urlCalls, popup, polls, muleCalls>>]_vars

C9_RejectedByLimitOnly ==
    /\ lastOp = Op("retryBlocked", "tab1")
    /\ Exceeded("tab1") /\ ~AlreadyVerified("tab1")
    /\ Len(Stored("tab1")) = MAX_ATTEMPTS
    /\ ~rb["tab1"].flowStarted
    /\ now - ParseInt(FlowOf("tab1").text) >= FLOW_RECENT_MS

\* C10: a start request of the retryButton less than 5 s after the last
\* accepted start of the record is rejected, records no attempt and issues
\* no OTP request; 5 s or more after it the de-duplication guard does not
\* reject
C10_DedupGuard ==
    [][\A i \in Tabs :
          (lastOp'.tab = i /\ lastOp'.op \in RetryOps)
              => LET recent == /\ FlowOf(i).present
                               /\ now - ParseInt(FlowOf(i).text) < FLOW_RECENT_MS
                 IN /\ recent => /\ lastOp'.op = "retryBlocked"
                                 /\ UNCHANGED <<attemptStore, flowStore, rb, otpCalls>>
                    /\ (/\ ~recent /\ ~Exceeded(i) /\ ~AlreadyVerified(i)
                        /\ ~rb[i].flowStarted)
                           => lastOp'.op # "retryBlocked"]_vars

C10_SecondStartRejected ==
    /\ lastOp = Op("retryBlocked", "tab1")
    /\ FlowOf("tab1").present
    /\ now - ParseInt(FlowOf("tab1").text) = FLOW_RECENT_MS - 1
    /\ Len(Stored("tab1")) = 1
    /\ ~Exceeded("tab1") /\ ~AlreadyVerified("tab1")
    /\ ~rb["tab1"].flowStarted

\* The notes of the continuations of an initiation call-out
InitiationFailed == "initFailed"

InitiationSucceeded == "initOk"

\* C11: after every failure of the initiation call-out (error status, empty
\* response, rejected call, blocked popup) the instance shows the error
\* state with a message and its in-progress flag is cleared
C11_InitiationFailureSurfaced ==
    \A i \in Instances :
        lastOp = Op(InitiationFailed, i)
            => IF i = "fv"
               THEN fv.showErrorModal /\ fv.errorMessage # "" /\ ~fv.isLoading
               ELSE /\ rb[i].currentStep = "error"
                    /\ rb[i].errorMessage # ""
                    /\ ~rb[i].flowStarted

\* C12: the attempt is recorded when the initiation call-out succeeds: the
\* step that accepts a start and the step of a failed initiation leave the
\* stored attempts as they are, the step of a successful initiation appends
\* exactly one
C12_AttemptRecordedOnSuccess ==
    [][\A i \in Instances :
          lastOp'.tab = i
              => /\ lastOp'.op \in StartAccepted \cup {InitiationFailed}
                     => StoreOf(i)' = StoreOf(i)
                 /\ lastOp'.op = InitiationSucceeded
                     => Len(Stored(i)') = Len(Stored(i)) + 1]_vars

\* C13: a poll that has run maxAttempts iterations without a completion
\* signal has ended: its interval is cleared, so no interval is still
\* running once its counter has reached maxAttempts
C13_PollEndsAtTimeout ==
    \A k \in DOMAIN polls : polls[k] < maxAttempts

\* C14: a poll tick that finds the popup closed ends that poll, releases
\* the loading flag, starts no exchange call-out and shows neither the
\* error nor the confirmation modal
C14_ClosedPopupCancels ==
    [][(/\ lastOp'.op = "poll"
        /\ fv.popupWindow # "null"
        /\ popup = "closed")
          => /\ Len(polls') = Len(polls) - 1
             /\ ~fv'.isLoading
             /\ muleCalls' = muleCalls
             /\ fv'.showErrorModal = fv.showErrorModal
             /\ fv'.showConfirmationModal = fv.showConfirmationModal
             /\ fv'.userInfo = fv.userInfo]_vars

C14_CancelledByClosing ==
    /\ lastOp = Op("poll", "fv")
    /\ popup = "closed" /\ fv.popupWindow # "null"
    /\ polls = <<>> /\ muleCalls = <<>>
    /\ ~fv.isLoading
    /\ ~fv.showErrorModal /\ ~fv.showConfirmationModal
    /\ Len(Stored("fv")) = 1

\* The responses of fetchKYCDetails with a non-success status code or a
\* verified flag that is present and false
KycRefusals ==
    {r \in KycResponses :
        /\ r.kind = "response"
        /\ r.statusCode \notin {200, 201} \/ ~r.outputKYCError}

\* C15: an exchange response with a non-success status, or with a verified
\* flag that is present and false, puts the component in its error state
\* with a message; the step opens neither the confirmation nor the details
\* view and keeps nothing of the response as identity
C15_RefusedExchangeFails ==
    [][/\ \A i \in Tabs : \A r \in KycRefusals :
            kycAnswered(i, r)
                => /\ rb'[i].currentStep = "error"
                   /\ rb'[i].errorMessage # ""
                   /\ rb'[i].showKycModal = rb[i].showKycModal
                   /\ rb'[i].kycDetails = rb[i].kycDetails
       /\ \A k \in DOMAIN muleCalls :
            muleSoftFailure(k)
                => /\ fv'.showErrorModal /\ fv'.errorMessage # ""
                   /\ fv'.showConfirmationModal = fv.showConfirmationModal
                   /\ fv'.showDetailsModal = fv.showDetailsModal
                   /\ fv'.userInfo = fv.userInfo
                   /\ fv'.verificationDetails = fv.verificationDetails]_vars

C15_ErrorStatusShown ==
    /\ lastOp = Op("exchangeFailed", "tab1")
    /\ rb["tab1"].currentStep = "error"
    /\ rb["tab1"].errorMessage = "Service returned error status: 500"
    /\ rb["tab1"].kycDetails = "none"
    /\ ~rb["tab1"].showKycModal

\* C16: an exchange response that reports success but carries no identity
\* is a failure: the component shows its error state, opens neither the
\* confirmation nor the details view, and the writeback it issues is the
\* failure marker without identity
C16_SuccessWithoutIdentityFails ==
    [][/\ \A i \in Tabs : \A r \in KycResponses :
            (KycAccepted(r) /\ ~r.identity /\ kycAnswered(i, r))
                => /\ rb'[i].currentStep = "error"
                   /\ ~rb'[i].showKycModal
                   /\ writes'[Len(writes')].status = VerificationFailed
       /\ \A k \in DOMAIN muleCalls :
            (muleSoftSuccess(k) /\ fv'.userInfo # "identity")
                => /\ fv'.showErrorModal
                   /\ ~fv'.showConfirmationModal]_vars

\* The Lead statuses that mark a verified person
VerifiedStatuses == {Verified, VerificationSuccessful}

\* C17: the writeback carries the identity on the success path only: every
\* failed exchange issues a writeback of the failure marker without
\* identity, every cancel issues a cancel outcome without identity, and a
\* verified status is only ever written together with identity data
C17_WritebackMatchesOutcome ==
    [][/\ lastOp'.op = "exchangeFailed"
            => /\ Len(writes') = Len(writes) + 1
               /\ writes'[Len(writes')].status = VerificationFailed
               /\ ~writes'[Len(writes')].identity
       /\ lastOp'.op = "cancel"
            => /\ Len(procCalls') = Len(procCalls) + 1
               /\ procCalls'[Len(procCalls')].action = "cancel"
               /\ procCalls'[Len(procCalls')].userInfo = "null"
       /\ \A k \in DOMAIN writes' :
            writes'[k].status \in VerifiedStatuses => writes'[k].identity]_vars

SuccessPaths == {"success", "confirm"}

\* C19: when the writeback fails after a successful verification the
\* handler ends with the writeback error shown and nothing loading, and
\* does not present the session as a completed success
C19_WritebackFailureShown ==
    [][\A k \in DOMAIN writes :
          writes[k].path \in SuccessPaths
              => /\ faydaWriteFailed(k)
                    => /\ fv'.showErrorModal
                       /\ fv'.errorMessage # ""
                       /\ ~fv'.showDetailsModal
                       /\ ~fv'.isLoading
                 /\ retryWriteFailed(k)
                    => /\ rb'[writes[k].by].currentStep # "success"
                       /\ rb'[writes[k].by].errorMessage # ""
                       /\ ~rb'[writes[k].by].otpProcessing]_vars

\* The notes of the continuations of an exchange
ExchangeContinuations == {"exchangeOk", "exchangeFailed", "writeOk", "writeFailed"}

\* C20: a terminal session makes no further transition: a continuation of
\* the exchange of an instance whose session was cancelled or reset (it is
\* no longer processing) changes neither the instance nor the Lead and
\* issues no writeback
C20_TerminalSessionIsFinal ==
    [][\A i \in Tabs :
          (/\ lastOp'.tab = i
           /\ lastOp'.op \in ExchangeContinuations
           /\ ~rb[i].otpProcessing)
              => /\ rb'[i] = rb[i]
                 /\ lead' = lead
                 /\ Len(writes') <= Len(writes)]_vars

\* The call-outs of the exchange and the commit that instance i has in flight
InFlight(i) ==
    IF i = "fv"
    THEN Len(muleCalls) + Len(procCalls)
           + Cardinality({k \in DOMAIN writes : writes[k].by = "fv"})
    ELSE kycCalls[i] + Cardinality({k \in DOMAIN writes : writes[k].by = i})

\* C21: the transitions of a session are sequential: a handler triggered
\* again while its call-out is outstanding issues no second call-out, so an
\* instance has at most one exchange or commit request in flight
C21_OneRequestInFlight ==
    \A i \in Instances : InFlight(i) <= 1

\* The instance record of i
InstanceOf(i) == IF i = "fv" THEN fv ELSE rb[i]

\* C23: the countdown is started on activation and stopped on
\* deactivation: an instance never has more than one countdown interval,
\* a connected instance that holds an id has exactly that one, and a
\* disconnected instance has none, so that no tick runs for it
C23_OneCountdownWhileConnected ==
    \A i \in Instances :
        /\ InstanceOf(i).timers <= 1
        /\ InstanceOf(i).intervalId <=> InstanceOf(i).timers = 1
        /\ ~InstanceOf(i).connected => InstanceOf(i).timers = 0

C23_StoppedAfterDisconnect ==
    /\ ~rb["tab1"].connected
    /\ rb["tab1"].timers = 0
    /\ rb["tab1"].isRateLimited
    /\ Len(Stored("tab1")) = MAX_ATTEMPTS

\* C22: disconnectedCallback cancels the popup poll: no poll interval is
\* left for a disconnected component and no poll tick runs for it
C22_NoPollAfterTeardown ==
    [][/\ lastOp'.op = "poll" => fv.connected
       /\ ~fv'.connected => polls' = <<>>]_vars

\* C24: while the instance is connected, the limit is exceeded and the
\* record is not verified, the countdown interval exists, so that its
\* ticks go on to the fresh evaluation that lifts the limit; this holds
\* also after the status was verified and changed back
C24_CountdownRunsWhileLimited ==
    \A i \in Instances :
        (/\ InstanceOf(i).connected
         /\ Exceeded(i)
         /\ ~AlreadyVerified(i))
            => InstanceOf(i).timers = 1

\* The notes of the steps in which a call-out result is handled
CallOutResults ==
    {"initOk", "initFailed", "exchangeOk", "exchangeFailed", "procOk", "procFailed"}

\* C25: a call-out result that arrives after disconnectedCallback is
\* discarded: the step that handles it leaves the fields of the
\* disconnected instance as they are
C25_LateResultDiscarded ==
    [][\A i \in Instances :
          (/\ lastOp'.tab = i
           /\ lastOp'.op \in CallOutResults
           /\ ~InstanceOf(i).connected)
              => InstanceOf(i)' = InstanceOf(i)]_vars

\* The record the page "twoRecords" shows in tab i, and its stored attempts
Shown(i) == IF i = "tab2" THEN "lead-B" ELSE "lead-A"

AttemptsOf(r) ==
    IF attemptStore[r].present THEN JSONparse(attemptStore[r]) ELSE <<>>

C27_AppendOrPruneOnly ==
    [][\A i \in Instances :
          StoreOf(i)' # StoreOf(i)
              => LET Keep(ts) == now' - ts < timeWindowMs
                     before == Stored(i)
                     after == Stored(i)'
                 IN \/ after = SelectSeq(before, Keep)
                    \/ /\ lastOp'.op \in StartAccepted
                       /\ after = SelectSeq(Append(before, now'), Keep)
                       /\ after[Len(after)] = now']_vars

C27_PrunedAndKept ==
    /\ lastOp = Op("evalTick", "tab1")
    /\ now = timeWindowMs
    /\ Len(Stored("tab1")) = MAX_ATTEMPTS - 1
    /\ \A k \in DOMAIN Stored("tab1") : InWindow(Stored("tab1")[k], now)
    /\ ~Exceeded("tab1")

\* C28: a start for a Lead without National FCN id is blocked with a
\* validation error: it records no attempt, marks no flow and sends no OTP
\* request; handleErrorRetry dismisses the error, and a start with the id
\* present that no other guard rejects is accepted
C28_MissingFcnBlocksRecoverably ==
    [][\A i \in Tabs :
          /\ (lastOp'.tab = i /\ lastOp'.op = "retryNoFcn")
                => /\ UNCHANGED <<attemptStore, flowStore, otpCalls>>
                   /\ rb'[i].currentStep = "error"
                   /\ rb'[i].errorMessage # ""
                   /\ ~rb'[i].flowStarted
          /\ handleErrorRetry(i)
                => /\ rb'[i].currentStep = "initial"
                   /\ rb'[i].errorMessage = ""
                   /\ ~rb'[i].flowStarted
          /\ (/\ lastOp'.tab = i /\ lastOp'.op \in RetryOps
              /\ rb[i].fcnId # ""
              /\ ~Exceeded(i) /\ ~AlreadyVerified(i) /\ ~rb[i].flowStarted
              /\ ~(/\ FlowOf(i).present
                   /\ now - ParseInt(FlowOf(i).text) < FLOW_RECENT_MS))
                => /\ lastOp'.op = "retryAccepted"
                   /\ Len(Stored(i)') = Len(Stored(i)) + 1]_vars

C28_BlockedWithoutFcn ==
    /\ lastOp = Op("retryNoFcn", "tab1")
    /\ lead.fcn = "" /\ rb["tab1"].fcnId = ""
    /\ rb["tab1"].currentStep = "error"
    /\ rb["tab1"].errorMessage = "Please Check The Selected Lead has National FCN Id Or Not"
    /\ Stored("tab1") = <<>> /\ ~FlowOf("tab1").present
    /\ otpCalls["tab1"] = 0

\* C29: a failure of the storage write that records an attempt is shown
\* as an error and the attempt does not count as recorded: the stored
\* attempts are unchanged, no initiation call-out is issued, and the
\* instance is not left in progress
C29_WriteFailureSurfaced ==
    [][\A i \in Instances :
          lastOp' = Op("writeThrew", i)
              => /\ StoreOf(i)' = StoreOf(i)
                 /\ IF i = "fv"
                    THEN /\ fv'.showErrorModal /\ fv'.errorMessage # ""
                         /\ ~fv'.isLoading
                         /\ urlCalls' = urlCalls
                    ELSE /\ rb'[i].currentStep = "error"
                         /\ rb'[i].errorMessage # ""
                         /\ ~rb'[i].flowStarted
                         /\ otpCalls' = otpCalls]_vars

\* The notes of a handler run that reads the stored attempts
EvaluationEnds == {"eval", "evalTick", "threw"}

\* C30: an evaluation that cannot read the stored attempts fails open as
\* "no prior attempts": it ends normally with remainingAttempts =
\* MAX_ATTEMPTS and the limit not exceeded
C30_UnreadableStorageFailsOpen ==
    [][\A i \in Tabs :
          (/\ lastOp'.tab = i /\ lastOp'.op \in EvaluationEnds
           /\ attemptStore[Shown(i)] = Unreadable
           /\ ~AlreadyVerified(i)')
              => /\ lastOp'.op # "threw"
                 /\ rb'[i].remainingAttempts = MAX_ATTEMPTS
                 /\ ~rb'[i].isRateLimited]_vars

\* The decimal digits, and a number below 100 written with two of them
Digits == <<"0", "1", "2", "3", "4", "5", "6", "7", "8", "9">>

TwoDigits(n) == Digits[(n \div 10) + 1] \o Digits[(n % 10) + 1]

\* The text MM:SS of a remaining time
MinutesSeconds(timeLeft) ==
    TwoDigits(timeLeft \div 60000) \o ":" \o TwoDigits((timeLeft % 60000) \div 1000)

CountdownText(timeLeft) ==
    IF timeLeft <= 0 THEN "" ELSE MinutesSeconds(timeLeft)

C32_StoredAttemptsCapped ==
    [][\A i \in Instances :
          (StoreOf(i)' # StoreOf(i))
              => /\ CountInWindow(Stored(i)', now') <= MAX_ATTEMPTS
                 /\ (lastOp'.op \in StartAccepted /\ lastOp'.tab = i)
                        => CountInWindow(Stored(i), now) < MAX_ATTEMPTS]_vars

\* The third click of one window was accepted with two attempts stored
C32_ThirdClickAccepted ==
    /\ lastOp = Op("clickAccepted", "fv")
    /\ CountInWindow(Stored("fv"), now) = MAX_ATTEMPTS
    /\ fv.rateLimitExceeded

\* C33: while the faydaVerification holds a status it shows as verified
\* ('Verified', 'Verification Successful' or 'Code Captured'),
\* handleVerificationClick starts no verification: it records no attempt,
\* requests no URL and opens no popup
C33_VerifiedStatusBlocksClick ==
    [][(/\ fv.currentStatus \in ShownAsVerified
        /\ fv.showVerifiedStatus
        /\ lastOp'.tab = "fv"
        /\ lastOp'.op \in {"clickBlocked", "clickAccepted"})
          => /\ lastOp'.op = "clickBlocked"
             /\ UNCHANGED <<faydaStore, urlCalls, popup, polls>>]_vars

\* C34: handleConfirm of faydaVerification writes the Lead status
\* 'Verified' only if processVerificationResult with action 'finish' returns
\* SUCCESS: when that call fails or returns another result, the Lead has
\* not been updated to 'Verified'
C34_VerifiedOnlyAfterFinishSucceeded ==
    [][\A k \in 1..MaxCalls :
          (/\ k \in DOMAIN procCalls
           /\ procCalls[k].action = "finish"
           /\ procResult(k)
           /\ lastOp'.op = "procFailed")
              => lead'.status # Verified]_vars

\* C35: every accepted click of faydaVerification, which sets isLoading,
\* is eventually followed by isLoading = false, whichever way the session
\* goes: initiation error, popup closed, error parameter, timeout, exchange
\* success or failure, or callbacks of the poll that throw
C35_LoadingReleased ==
    (lastOp = Op("clickAccepted", "fv") /\ fv.isLoading) ~> ~fv.isLoading

\* A session that only ever met inaccessible pages ended at its timeout
C35_ReleasedAtTimeout ==
    /\ lastOp = Op("poll", "fv")
    /\ ~fv.isLoading
    /\ fv.errorMessage = "Cannot access verification page. Please ensure popups are allowed."

\* C36: while a viewer is open and has documents, currentIndex is one of
\* their indexes, 0..documents.length - 1, whatever was opened, stepped to,
\* jumped to or reloaded; next at the last document and previous at the
\* first leave currentIndex as it is
C36_IndexWithinDocuments ==
    [][/\ (viewer'.c.isViewerOpen /\ Len(viewer'.c.documents) > 0)
            => viewer'.c.currentIndex \in 0..(Len(viewer'.c.documents) - 1)
       /\ (/\ lastOp'.op \in {"next", "ArrowRight"}
           /\ viewer.c.currentIndex = Len(viewer.c.documents) - 1)
            => viewer'.c.currentIndex = viewer.c.currentIndex
       /\ (lastOp'.op \in {"previous", "ArrowLeft"} /\ viewer.c.currentIndex = 0)
            => viewer'.c.currentIndex = viewer.c.currentIndex]_vars

\* C37: once the canvas is initialised, 0 <= historyIndex <=
\* history.length - 1, canUndo = (historyIndex > 0) and
\* canRedo = (historyIndex < history.length - 1) after every stroke start,
\* clear, undo and redo; a stroke start or a clear keeps the entries up to
\* historyIndex, drops every entry above it and adds one
C37_HistoryIndexAndButtons ==
    [][sig'.canvas # "null"
          => /\ sig'.historyIndex \in 0..(Len(sig'.history) - 1)
             /\ sig'.canUndo = (sig'.historyIndex > 0)
             /\ sig'.canRedo = (sig'.historyIndex < Len(sig'.history) - 1)
             /\ lastOp'.op \in {"strokeStart", "clear"}
                  => /\ Len(sig'.history) = sig.historyIndex + 2
                     /\ sig'.historyIndex = sig.historyIndex + 1
                     /\ \A k \in 1..(sig.historyIndex + 1) :
                           sig'.history[k] = sig.history[k]]_vars

\* A stroke was begun after an undo, and the undone entry was dropped
C37_RedoDiscardedByStroke ==
    /\ lastOp = Op("strokeStart", "signature")
    /\ sig.historyIndex = 1 /\ Len(sig.history) = 2
    /\ sig.strokes = 2
    /\ ~sig.canRedo /\ sig.canUndo

\* C38: undo followed at once by redo shows the canvas as it was before
\* the undo, the stroke drawn last included; and hasSignature is set only
\* while the canvas shows a stroke
C38_UndoRedoRestoresCanvas ==
    /\ sig.historyIndex > 0 => redo(undo(sig)).ink = sig.ink
    /\ sig.hasSignature => sig.ink # {}

\* C39: a sendMessage request is issued only when the thread exists, the
\* text is not blank or an attachment is set, the session is active and no
\* other send is in flight, from the button and from the Enter key alike:
\* at most one send request is outstanding
C39_SendOnlyWhenEnabled ==
    [][lastOp'.op = "sendIssued"
          => /\ ~isSendDisabled(chat.c)
             /\ chat.c.conversationData.thread # "undefined"
             /\ Trim(chat.c.messageText) # "" \/ chat.c.attachmentUrl # ""
             /\ chat.c.conversationData.hasActiveSession
             /\ ~chat.c.isSending
             /\ chat.sends = <<>>
             /\ Len(chat'.sends) <= 1]_vars


====
